---- MODULE Spec2Model ----
(***************************************************************************)
(* DRTIO aux-channel protocol engine of the ARTIQ Zynq firmware.           *)
(*                                                                         *)
(* Three state machines share this module, each with its own               *)
(* specification:                                                          *)
(*   Spec         the satellite's subkernel session manager                *)
(*                (satman/src/subkernel.rs) driven by the satellite        *)
(*                service loop (satman/src/main.rs, linkup_service) and    *)
(*                by the locally handled aux packets                       *)
(*                (satman/src/drtiosat_aux.rs);                            *)
(*   SpecMaster   the master's aux transactions                            *)
(*                (runtime/src/rtio_mgt.rs);                               *)
(*   SpecDispatch the satellite's aux dispatcher and its forwarding        *)
(*                decision (satman/src/drtiosat_aux.rs).                   *)
(* The variables of the machines a specification does not drive keep their *)
(* initial values.                                                         *)
(***************************************************************************)
EXTENDS Integers, Sequences, FiniteSets, TLC

VARIABLES
    \* ---- satellite: subkernel::Manager and its collaborators ----
    kernels,          \* Manager.kernels: id -> "none" | "partial" | "complete"
    session,          \* Manager.session (struct Session, MessageManager inlined)
    last_finished,    \* Manager.last_finished: Option<SubkernelFinished>
    kern_rx,          \* control.rx: messages of the kernel CPU not yet received
    kcpu,             \* the kernel CPU: "off" | "loaded" | "run" | "wait" | "halt"
    to_kernel,        \* control.tx: messages sent to the kernel CPU by the last step
    routed,           \* packets handed to router.route / router.send by the last step
    now,              \* timer::get_ms()
    svc_pc,           \* position in linkup_service: "aux" | "kern"
    ev,               \* the last step: its operation and what it consumed
    panicked,         \* the satellite firmware has panicked
    timed_out,        \* the wait of this session that last timed out: Option of
                      \* <<kernel state, id waited for>>
    inputs,           \* aux packets handled and kernel requests sent so far
    unacked,          \* slices of the session's outgoing message routed and not
                      \* yet answered by a SubkernelMessageAck
    uploads,          \* dma::Manager: destinations of the trace being uploaded
                      \* that have not answered yet
    upload_log,       \* of the upload started last: destinations targeted,
                      \* replies of either kind, signals given to the session
    \* ---- master: rtio_mgt::drtio ----
    ROUTING_TABLE,    \* comms::ROUTING_TABLE, column of rank 0: destination -> hop
    AUX_MUTEX,        \* the task holding AUX_MUTEX (Option)
    task_pc,          \* task -> "idle" | "lock" | "transact"
    task_op,          \* task -> "aux_transact" | "sync_tsc" | "process_unsolicited_aux"
    task_link,        \* task -> linkno
    link_rx_up,       \* linkno -> rx_up_read() == 1
    sent,             \* drtioaux_async::send calls of the last step: <<linkno, packet>>
    mev,              \* the last master step, with the Result a call returned
    \* ---- satellite: aux dispatcher ----
    routing_table,    \* _routing_table.0: destination -> rank -> hop
    rank,             \* *rank
    self_destination, \* *self_destination
    dev,              \* the last dispatch: packet and what was done with it
    \* ---- chunked transfers: drtio::partition_data and its receivers ----
    tx,               \* the call of partition_data in progress (Option):
                      \* [kind, data, i]
    transfers,        \* calls of partition_data so far
    library,          \* Manager.kernels, entry of one id (Option):
                      \* [library, complete]
    in_buffer,        \* MessageManager.in_buffer (Option): [count, data]
    in_queue,         \* MessageManager.in_queue
    config_payload,   \* mgmt::Manager.config_payload
    config_written,   \* the payloads write_config was called on
    fresh,            \* kind -> the bytes of the chunks delivered since the
                      \* latest chunk the sender marked first, that one included
    cev,              \* the last step of a transfer
    \* ---- CoaXPress control packets: cxp_packet, cxp_camera_setup ----
    TAG,              \* cxp_packet::TAG
    CXP_STATE,        \* cxp_grabber::STATE
    WITH_TAG,         \* cxp_grabber::WITH_TAG
    setup,            \* camera_setup in progress (Option): [with_tag, phase]
    txn,              \* the write_bytes / read_bytes call in progress (Option)
    epoch_sent,       \* a control packet was sent since camera_setup last began
    epoch,            \* the steps that succeeded for the current connection, in order
    xev,              \* the last step of the control-packet engine
    \* ---- CoaXPress control packets on the wire: cxp_ctrl ----
    rxsent,           \* what the camera sent (Option)
    rxbuf,            \* the bytes in the receive slot
    damaged,          \* a byte of the slot differs from what was sent
    rxout,            \* what the decoder returned for the slot (Option)
    \* ---- the master's link supervisor: rtio_mgt::drtio::link_task ----
    up_links,         \* link_task's up_links
    up_destinations,  \* the destinations marked up
    SEEN_ASYNC_ERRORS, \* the mask of asynchronous RTIO errors
    lpc,              \* where link_task is: [at, i, count]
    degraded,         \* link -> the steps that failed when the link came up
    lev,              \* the last step of the supervisor
    \* ---- core management: runtime mgmt, satman mgmt ----
    storage,          \* the boot image written to the target's storage (Option)
    node,             \* the target node: "running", "rebooted" or "panicked"
    host_reply,       \* the Reply the requesting host was sent last
    fl,               \* the remote image write in progress (Option):
                      \* [image, rest, image_payload, acked]
    gop,              \* the operation asked for last: [op, image, failed]
    \* ---- satellite: CXP register requests (satman/src/drtiosat_cxp.rs) ----
    IDLE,             \* static IDLE: no read or write task is running
    CXP_PACKET,       \* static CXP_PACKET: Option of the result a task stored
    cxp_task,         \* the task spawned and not finished: Option of its request
    connected,        \* cxp_grabber::async_camera_connected()
    kreq,             \* master: the kernel's CXP request being transacted, Option
    error_delivered,  \* a task's CXPError has reached the master
    qev               \* the last step: [step, req, reply, to_kernel]

svars == <<kernels, session, last_finished, kern_rx, kcpu, to_kernel, routed, now,
           svc_pc, ev, panicked, timed_out, inputs, unacked, uploads, upload_log>>
mvars == <<ROUTING_TABLE, AUX_MUTEX, task_pc, task_op, task_link, link_rx_up, sent,
           mev>>
dvars == <<routing_table, rank, self_destination, dev>>
cvars == <<tx, transfers, library, in_buffer, in_queue, config_payload, config_written,
           fresh, cev>>
xvars == <<TAG, CXP_STATE, WITH_TAG, setup, txn, epoch_sent, epoch, xev>>
pvars == <<rxsent, rxbuf, damaged, rxout>>
lvars == <<up_links, up_destinations, SEEN_ASYNC_ERRORS, lpc, degraded, lev>>
gvars == <<storage, node, host_reply, fl, gop>>
qvars == <<IDLE, CXP_PACKET, cxp_task, connected, kreq, error_delivered, qev>>
vars == <<svars, mvars, dvars, cvars, xvars, pvars, lvars, gvars, qvars>>

----------------------------------------------------------------------------
\* Bounds of the model.

MaxNow == 10001        \* the clock stops here
MaxSmallTicks == 2     \* ticks of 1 ms the model follows after each long wait
MaxInputs == 5         \* aux packets and kernel requests the model follows
MaxChan == 1           \* kernel messages waiting in control.rx
MaxFinished == 1       \* length of session.subkernels_finished
MaxInQueue == 1        \* length of session.messages.in_queue
MaxUploads == 3        \* destinations one trace is uploaded to
MaxSlices == 2         \* slices of one outgoing interkernel message

\* Program constants.
DMA_AWAIT_TIMEOUT == 10000
INITIAL_RANK == 1
INITIAL_DESTINATION == 1

KernelIds == {1}                 \* ids of the subkernels uploaded to this satellite
RemoteIds == {1, 2}              \* ids the kernel names in its waits
PeerIds == {2}                   \* ids of the subkernels running on other satellites
Destinations == 0..2             \* DRTIO destinations; 0 is the master's
\* the destinations other than this satellite's: who may ask for a run
Sources == Destinations \ {INITIAL_DESTINATION}
\* a destination behind another satellite
RemoteDest == CHOOSE d \in Sources : d # 0
Timeouts == {0, 1}               \* timeout arguments of the kernel, in ms
TickSteps == {1, DMA_AWAIT_TIMEOUT}

None == <<>>
Some(x) == <<x>>

----------------------------------------------------------------------------
\* enum KernelState, one record shape for all variants.

KS(type, max_time, id, timestamp, destination) ==
    [type |-> type, max_time |-> max_time, id |-> id, timestamp |-> timestamp,
     destination |-> destination]

Absent == KS("Absent", None, 0, 0, 0)
Running == KS("Running", None, 0, 0, 0)
MsgSending == KS("MsgSending", None, 0, 0, 0)
SubkernelAwaitLoad == KS("SubkernelAwaitLoad", None, 0, 0, 0)
DmaUploading == KS("DmaUploading", None, 0, 0, 0)

\* Session::new
Session_new(id) ==
    [id |-> id, kernel_state |-> Absent, last_exception |-> "none",
     external_exception |-> FALSE, out_message |-> None, out_state |-> "NoMessage",
     in_queue |-> <<>>, in_buffer |-> None, source |-> 0,
     subkernels_finished |-> <<>>]

\* Session::running
running(s) == s.kernel_state.type \notin {"Absent", "Loaded"}

\* PayloadStatus
StatusSet == {"FirstAndLast", "First", "Middle", "Last"}
is_first(status) == status \in {"FirstAndLast", "First"}
is_last(status) == status \in {"FirstAndLast", "Last"}

\* Sliceable::get_slice_master on a buffer of `total` slices of which `at` are out.
slice_status(total, at) ==
    IF at = 0
    THEN (IF total = 1 THEN "FirstAndLast" ELSE "First")
    ELSE (IF at + 1 >= total THEN "Last" ELSE "Middle")

----------------------------------------------------------------------------
\* struct MessageManager (fields of session: out_message, out_state, in_queue,
\* in_buffer).  out_message is Some([destination, total, at]): a Sliceable of
\* `total` slices with `at` of them already taken.  A queued incoming message is
\* kept as its id.

\* MessageManager::handle_incoming panics on `data[1..length]` when a new buffer is
\* started from a chunk of length 0.
handle_incoming_panics(s, status, length) ==
    (is_first(status) \/ s.in_buffer = None) /\ length = 0

\* MessageManager::handle_incoming
handle_incoming(s, status, id) ==
    LET buf0 == IF is_first(status) THEN None ELSE s.in_buffer
        buf1 == IF buf0 # None THEN buf0 ELSE Some(id)
    IN  IF is_last(status)
        THEN [s EXCEPT !.in_buffer = None, !.in_queue = Append(@, buf1[1])]
        ELSE [s EXCEPT !.in_buffer = buf1]

was_message_acknowledged_lax(s) ==
    s.out_state \in {"MessageSent", "MessageAcknowledged"}

\* MessageManager::was_message_acknowledged: the value returned; the caller below
\* applies its assignment out_state = NoMessage.
was_message_acknowledged(s) ==
    s.out_state = "MessageAcknowledged"

\* MessageManager::get_outgoing_slice: [s, meta], meta an Option of
\* [destination, status].
get_outgoing_slice(s) ==
    IF s.out_state # "MessageBeingSent" \/ s.out_message = None
    THEN [s |-> s, meta |-> None]
    ELSE LET o == s.out_message[1]
             status == slice_status(o.total, o.at)
         IN  [s |-> IF is_last(status)
                    THEN [s EXCEPT !.out_message = None, !.out_state = "MessageSent"]
                    ELSE [s EXCEPT !.out_message = Some([o EXCEPT !.at = @ + 1])],
              meta |-> Some([destination |-> o.destination, status |-> status])]

\* MessageManager::ack_slice: [s, more]
ack_slice(s) ==
    CASE s.out_state = "MessageBeingSent" -> [s |-> s, more |-> TRUE]
      [] s.out_state = "MessageSent" ->
            [s |-> [s EXCEPT !.out_state = "MessageAcknowledged"], more |-> FALSE]
      [] OTHER -> [s |-> s, more |-> FALSE]

SubkernelMessagePacket(source, destination, id, status) ==
    [type |-> "SubkernelMessage", source |-> source, destination |-> destination,
     id |-> id, status |-> status]

\* MessageManager::accept_outgoing: [s, packet]
accept_outgoing(s, id, self_dest, destination, total) ==
    LET s1 == [s EXCEPT !.out_message =
                            Some([destination |-> destination, total |-> total, at |-> 0]),
                        !.out_state = "MessageBeingSent"]
        g == get_outgoing_slice(s1)
    IN  [s |-> g.s,
         packet |-> SubkernelMessagePacket(self_dest, destination, id, g.meta[1].status)]

\* MessageManager::get_incoming: the index of the first queued message of `id`, or 0
get_incoming(s, id) ==
    IF \E i \in 1..Len(s.in_queue) : s.in_queue[i] = id
    THEN CHOOSE i \in 1..Len(s.in_queue) :
            s.in_queue[i] = id /\ \A j \in 1..(i - 1) : s.in_queue[j] # id
    ELSE 0

\* Vec::remove
remove_at(q, i) == [j \in 1..(Len(q) - 1) |-> IF j < i THEN q[j] ELSE q[j + 1]]

\* Vec::swap_remove
swap_remove(q, i) == [j \in 1..(Len(q) - 1) |-> IF j = i THEN q[Len(q)] ELSE q[j]]

----------------------------------------------------------------------------
\* impl Manager.  The operators below work on a record m of the state one call of
\* process_kern_requests reads and writes:
\*   s  session            lf last_finished       rx control.rx
\*   tk messages it sent to the kernel            rt packets it routed
\*   res result of the call in progress; at the end of process_kern_requests ext
\*       is the result of process_external_messages and res that of
\*       process_kern_message
\*   msg the kernel message process_kern_message received ("none" if none)
\*   to  timed_out

m_send(m, k) == [m EXCEPT !.tk = Append(@, k)]
m_route(m, p) == [m EXCEPT !.rt = Append(@, p)]
m_state(m, ks) == [m EXCEPT !.s.kernel_state = ks]
m_res(m, r) == [m EXCEPT !.res = r]

kernel_stop_skipped(s) == s

\* Manager::kernel_stop
kernel_stop(s) == [s EXCEPT !.kernel_state = Absent]

\* Manager::runtime_exception
runtime_exception(s) == kernel_stop([s EXCEPT !.last_exception = "runtime"])

SubkernelFinished(id, with_exception, exception_source, source) ==
    [id |-> id, with_exception |-> with_exception,
     exception_source |-> exception_source, source |-> source]

deadline_passed_late(t, max_time) ==
    max_time # None /\ t > max_time[1] + 1

\* `timer::get_ms() > max_time` under `if let Some(max_time)`
deadline_passed(t, max_time) ==
    max_time # None /\ t > max_time[1]

check_finished_kernels_plain(m, id, self_dest) ==
    LET sf == m.s.subkernels_finished
    IN  IF \E i \in 1..Len(sf) : sf[i][1] = id
        THEN [m_send(m, "SubkernelAwaitFinishReply") EXCEPT
                 !.s.kernel_state = Running,
                 !.s.subkernels_finished =
                     swap_remove(sf, CHOOSE i \in 1..Len(sf) : sf[i][1] = id)]
        ELSE m

\* Manager::check_finished_kernels
check_finished_kernels(m, id, self_dest) ==
    LET sf == m.s.subkernels_finished
        hit == IF \E i \in 1..Len(sf) : sf[i][1] = id
               THEN CHOOSE i \in 1..Len(sf) :
                       sf[i][1] = id /\ \A j \in 1..(i - 1) : sf[j][1] # id
               ELSE 0
    IN  IF hit = 0 THEN m
        ELSE IF sf[hit][2] = None
        THEN [m_send(m, "SubkernelAwaitFinishReply") EXCEPT
                 !.s.kernel_state = Running,
                 !.s.subkernels_finished = swap_remove(sf, hit)]
        ELSE [m_route(m, [type |-> "SubkernelExceptionRequest", source |-> self_dest,
                          destination |-> sf[hit][2][1]]) EXCEPT
                 !.s.external_exception = TRUE,
                 !.s.kernel_state =
                     KS("SubkernelRetrievingException", None, 0, 0, sf[hit][2][1])]

\* Manager::pass_message_to_kernel: the exchange with the kernel CPU ends in one of
PassResults == {"Ok", "KernelException", "UnexpectedStopped", "Unexpected", "NoMessage"}

pass_message_to_kernel(m, pass_res) ==
    CASE pass_res = "Ok" -> m_res(m_send(m, "RpcRecvReply"), "Ok")
      [] pass_res = "KernelException" ->
            m_res([m EXCEPT !.s = kernel_stop(@)], "KernelException")
      [] pass_res = "UnexpectedStopped" ->
            m_res([m EXCEPT !.s = kernel_stop(@)], "Err")
      [] OTHER -> m_res(m, "Err")

\* Manager::process_external_messages
process_external_messages(m, t, self_dest, pass_res) ==
    LET ks == m.s.kernel_state
    IN  CASE ks.type = "MsgAwait" ->
                IF deadline_passed(t, ks.max_time)
                THEN [m_res(m_state(m_send(m, "SubkernelError_Timeout"), Running), "Ok")
                         EXCEPT !.to = Some(<<ks.type, ks.id>>)]
                ELSE IF get_incoming(m.s, ks.id) # 0
                THEN pass_message_to_kernel(
                         [m_state(m_send(m, "SubkernelMsgRecvReply"), Running) EXCEPT
                             !.s.in_queue = remove_at(@, get_incoming(m.s, ks.id))],
                         pass_res)
                ELSE m_res(check_finished_kernels(m, ks.id, self_dest), "AwaitingMessage")
          [] ks.type = "MsgSending" ->
                IF was_message_acknowledged(m.s)
                THEN m_res(m_send([m EXCEPT !.s.out_state = "NoMessage",
                                            !.s.kernel_state = Running],
                                  "SubkernelMsgSent"), "Ok")
                ELSE m_res(m, "AwaitingMessage")
          [] ks.type = "SubkernelAwaitFinish" ->
                IF deadline_passed(t, ks.max_time)
                THEN [m_res(m_state(m_send(m, "SubkernelError_Timeout"), Running), "Ok")
                         EXCEPT !.to = Some(<<ks.type, ks.id>>)]
                ELSE m_res(check_finished_kernels(m, ks.id, self_dest), "Ok")
          [] ks.type = "SubkernelRetrievingException" -> m_res(m, "AwaitingMessage")
          [] ks.type \in {"DmaAwait", "DmaPendingAwait"} ->
                IF deadline_passed(t, ks.max_time)
                THEN [m_res(m_state(m_send(m, "DmaAwaitRemoteReply_timeout"), Running), "Ok")
                         EXCEPT !.to = Some(<<ks.type, 0>>)]
                ELSE m_res(m, "Ok")
          [] OTHER -> m_res(m, "Ok")

----------------------------------------------------------------------------
\* kernel::Message, the requests of the kernel CPU, one record shape:
\*   id      subkernel id / DMA trace id      timeout  ms, <= 0 for none
\*   dest    Option<u8> of SubkernelMsgSend, destination of SubkernelLoadRunRequest
\*   total   slices the data of SubkernelMsgSend takes     run   of LoadRunRequest
\*   timestamp  of DmaStartRemoteRequest and SubkernelLoadRunRequest

KMsg(kind, id, timeout, dest, total, run) ==
    [kind |-> kind, id |-> id, timeout |-> timeout, dest |-> dest, total |-> total,
     run |-> run, timestamp |-> 0]

NoReplyKinds == {"CachePutRequest", "DmaEraseRequest", "RtioInitRequest"}
ReplyKinds == {"CacheGetRequest", "DmaGetRequest", "UpDestinationsRequest"}

reply_of(kind) ==
    CASE kind = "CacheGetRequest" -> "CacheGetReply"
      [] kind = "DmaGetRequest" -> "DmaGetReply"
      [] OTHER -> "UpDestinationsReply"

\* The requests the kernel CPU of the model sends: every arm of
\* process_kern_message, the cache, DMA-erase/get and RTIO-init arms through
\* CachePutRequest and CacheGetRequest, the arm `_` through RpcSend.
KernelMessages ==
    {KMsg(k, 0, 0, None, 0, FALSE) :
        k \in {"KernelFinished", "KernelException", "DmaPutRequest",
               "DmaAwaitRemoteRequest", "RpcSend", "CachePutRequest", "CacheGetRequest"}}
    \cup {KMsg("DmaStartRemoteRequest", 1, 0, None, 0, FALSE)}
    \cup {KMsg("SubkernelMsgSend", 0, 0, d, n, FALSE) :
            d \in {None, Some(RemoteDest)}, n \in 1..MaxSlices}
    \cup {KMsg("SubkernelMsgRecvRequest", i, t, None, 0, FALSE) :
            i \in {-1, 2}, t \in Timeouts}
    \cup {KMsg("SubkernelLoadRunRequest", 2, 0, Some(RemoteDest), 0, TRUE)}
    \cup {KMsg("SubkernelAwaitFinishRequest", i, t, None, 0, FALSE) :
            i \in RemoteIds, t \in Timeouts}

\* The kernel CPU waits for the reply to these before it sends anything else.
BlockingKinds ==
    ReplyKinds \cup {"DmaAwaitRemoteRequest", "RpcSend", "SubkernelMsgSend",
                     "SubkernelMsgRecvRequest", "SubkernelLoadRunRequest",
                     "SubkernelAwaitFinishRequest"}

\* dma::Manager, outcome of put_record / upload_traces / playback_remote
DmaResults == {"Ok", "PutFail", "RemoteFail"}

\* `if timeout > 0 { Some(timer::get_ms() + timeout as u64) } else { None }`
max_time_of(t, timeout) == IF timeout > 0 THEN Some(t + timeout) ELSE None

\* Manager::process_kern_message, the arm of the message received.  res is
\* "Finished" for Ok(true), "Ok" for Ok(false), "KernelException" or "Err".
kern_message_arm(m, msg, t, self_dest, dma_res) ==
    LET s == m.s
    IN  CASE msg.kind = "KernelFinished" ->
                m_res([m EXCEPT !.s = kernel_stop(@)], "Finished")
          [] msg.kind = "KernelException" ->
                m_res([m EXCEPT !.s = kernel_stop(@)], "KernelException")
          [] msg.kind \in NoReplyKinds -> m_res(m, "Ok")
          [] msg.kind \in ReplyKinds -> m_res(m_send(m, reply_of(msg.kind)), "Ok")
          [] msg.kind = "DmaPutRequest" ->
                IF dma_res = "Ok" THEN m_res(m_state(m, DmaUploading), "Ok")
                ELSE m_res(m, "Err")
          [] msg.kind = "DmaStartRemoteRequest" ->
                IF s.kernel_state.type # "DmaUploading"
                THEN (IF dma_res = "RemoteFail" THEN m_res(m, "Err") ELSE m_res(m, "Ok"))
                ELSE m_res(m_state(m, KS("DmaPendingPlayback", None, msg.id, msg.timestamp, 0)),
                           "Ok")
          [] msg.kind = "DmaAwaitRemoteRequest" ->
                IF s.kernel_state.type = "DmaPendingPlayback"
                THEN m_res(m_state(m, KS("DmaPendingAwait", Some(t + DMA_AWAIT_TIMEOUT),
                                         s.kernel_state.id, s.kernel_state.timestamp, 0)),
                           "Ok")
                ELSE m_res(m_state(m, KS("DmaAwait", Some(t + DMA_AWAIT_TIMEOUT), 0, 0, 0)),
                           "Ok")
          [] msg.kind = "SubkernelMsgSend" ->
                LET msg_dest == IF msg.dest # None THEN msg.dest[1] ELSE s.source
                    a == accept_outgoing(s, s.id, self_dest, msg_dest, msg.total)
                IN  m_res(m_state(m_route([m EXCEPT !.s = a.s], a.packet), MsgSending), "Ok")
          [] msg.kind = "SubkernelMsgRecvRequest" ->
                m_res(m_state(m, KS("MsgAwait", max_time_of(t, msg.timeout),
                                    IF msg.id = -1 THEN s.id ELSE msg.id, 0, 0)), "Ok")
          [] msg.kind = "SubkernelLoadRunRequest" ->
                m_res(m_route(m_state(m, SubkernelAwaitLoad),
                              [type |-> "SubkernelLoadRunRequest", source |-> self_dest,
                               destination |-> msg.dest[1], id |-> msg.id, run |-> msg.run]),
                      "Ok")
          [] msg.kind = "SubkernelAwaitFinishRequest" ->
                m_res(m_state(m, KS("SubkernelAwaitFinish", max_time_of(t, msg.timeout),
                                    msg.id, 0, 0)), "Ok")
          [] OTHER -> m_res(m, "Err")

\* Manager::process_kern_message: `rx.try_recv()?`, then the arm.
process_kern_message(m, t, self_dest, dma_res) ==
    IF m.rx = <<>> THEN m_res(m, "NoMessage")
    ELSE kern_message_arm([m EXCEPT !.rx = Tail(@), !.msg = Head(m.rx).kind],
                          Head(m.rx), t, self_dest, dma_res)

routed_dest_self(lf, self_dest) == self_dest

\* the destination of the SubkernelFinished packet process_kern_requests routes
finished_destination(lf, self_dest) == lf.source

finish_taken_kept(lf) == lf

\* `self.last_finished.take()`: what it leaves behind
finish_taken(lf) == None

\* process_kern_requests, the match on the result of process_external_messages
\* and of process_kern_message: what a session that ended leaves in
\* last_exception and last_finished.
end_of_session(m, self_dest) ==
    CASE m.res = "Finished" ->
            [m EXCEPT !.lf = Some(SubkernelFinished(m.s.id, FALSE, 0, m.s.source))]
      [] m.res = "KernelException" ->
            [m EXCEPT !.s.last_exception = "kernel",
                      !.lf = Some(SubkernelFinished(m.s.id, TRUE, self_dest, m.s.source))]
      [] m.res = "Err" ->
            [m EXCEPT !.s = runtime_exception(@),
                      !.lf = Some(SubkernelFinished(m.s.id, TRUE, self_dest, m.s.source))]
      [] OTHER -> m

\* Manager::process_kern_requests
process_kern_requests(m0, t, self_dest, pass_res, dma_res) ==
    LET m1 == IF m0.lf = None THEN m0
              ELSE [m_route(m0, [type |-> "SubkernelFinished",
                                 destination |-> finished_destination(m0.lf[1], self_dest),
                                 id |-> m0.lf[1].id,
                                 with_exception |-> m0.lf[1].with_exception,
                                 exception_src |-> m0.lf[1].exception_source])
                       EXCEPT !.lf = finish_taken(m0.lf)]
    IN  IF ~running(m1.s) THEN [m1 EXCEPT !.ext = "NotRunning"]
        ELSE LET m2 == process_external_messages(m1, t, self_dest, pass_res)
             IN  IF m2.res = "AwaitingMessage"
                 THEN [m2 EXCEPT !.ext = "AwaitingMessage", !.res = "none"]
                 ELSE LET m3 == end_of_session(m2, self_dest)
                          m4 == process_kern_message(m3, t, self_dest, dma_res)
                      IN  [end_of_session(m4, self_dest) EXCEPT !.ext = m2.res]

----------------------------------------------------------------------------
\* Manager::add: the entry of `id` after the chunk
add(kern, id, status) ==
    [kern EXCEPT ![id] = IF is_last(status) THEN "complete" ELSE "partial"]

\* Manager::load without the look at the library: every id is loaded
load_incomplete(s, kern, id, reply) ==
    IF s.id = id /\ s.kernel_state.type = "Loaded"
    THEN [s |-> s, ok |-> TRUE, restarted |-> FALSE, started |-> FALSE]
    ELSE [s |-> Session_new(id), ok |-> reply = "LoadCompleted", restarted |-> TRUE,
          started |-> FALSE]

\* Manager::load.  reply is the kernel CPU's answer to LoadRequest.
\* [s, ok, restarted, started]
load(s, kern, id, reply) ==
    IF s.id = id /\ s.kernel_state.type = "Loaded"
    THEN [s |-> s, ok |-> TRUE, restarted |-> FALSE, started |-> FALSE]
    ELSE IF kern[id] # "complete"
    THEN [s |-> s, ok |-> FALSE, restarted |-> FALSE, started |-> FALSE]
    ELSE [s |-> Session_new(id), ok |-> reply = "LoadCompleted", restarted |-> TRUE,
          started |-> FALSE]

\* Manager::run
run(s, kern, source, id, reply) ==
    LET l == IF s.kernel_state.type # "Loaded" \/ s.id # id
             THEN load(s, kern, id, reply)
             ELSE [s |-> s, ok |-> TRUE, restarted |-> FALSE, started |-> FALSE]
    IN  IF ~l.ok THEN l
        ELSE [l EXCEPT !.s.kernel_state = Running, !.s.source = source,
                       !.started = TRUE]

LoadReplies == {"LoadCompleted", "LoadFailed"}

\* process_aux_packet, arm SubkernelLoadRunRequest: [s, succeeded, restarted, started, ok]
\* (ok: the load that last restarted the kernel CPU completed)
load_run_request(s, kern, source, id, do_run, dma_running, reply1, reply2) ==
    LET l == load(s, kern, id, reply1)
    IN  IF ~do_run \/ dma_running
        THEN [s |-> l.s, succeeded |-> l.ok /\ ~(do_run /\ dma_running),
              restarted |-> l.restarted, started |-> FALSE, ok |-> l.ok]
        ELSE LET r == run(l.s, kern, source, id, reply2)
             IN  [s |-> r.s, succeeded |-> l.ok \/ r.ok,
                  restarted |-> l.restarted \/ r.restarted, started |-> r.started,
                  ok |-> IF r.restarted THEN r.ok ELSE l.ok]

\* Manager::subkernel_load_run_reply: [s, tk]
subkernel_load_run_reply(s) ==
    IF s.kernel_state = SubkernelAwaitLoad
    THEN [s |-> [s EXCEPT !.kernel_state = Running], tk |-> <<"SubkernelLoadRunReply">>]
    ELSE [s |-> s, tk |-> <<>>]

remote_subkernel_finished_dropped(s, id, with_exception, exception_source) == s

\* Manager::remote_subkernel_finished
remote_subkernel_finished(s, id, with_exception, exception_source) ==
    [s EXCEPT !.subkernels_finished =
        Append(@, <<id, IF with_exception THEN Some(exception_source) ELSE None>>)]

\* Manager::received_exception: [s, tk, rt]
received_exception(s, last, self_dest) ==
    IF s.kernel_state.type = "SubkernelRetrievingException"
    THEN IF last
         THEN [s |-> [s EXCEPT !.external_exception = FALSE, !.kernel_state = Running],
               tk |-> <<"SubkernelError_Exception">>, rt |-> <<>>]
         ELSE [s |-> s, tk |-> <<>>,
               rt |-> <<[type |-> "SubkernelExceptionRequest", source |-> self_dest,
                         destination |-> s.kernel_state.destination]>>]
    ELSE [s |-> s, tk |-> <<>>, rt |-> <<>>]

\* Manager::ddma_finished: [s, tk]
ddma_finished(s) ==
    IF s.kernel_state.type = "DmaAwait"
    THEN [s |-> [s EXCEPT !.kernel_state = Running], tk |-> <<"DmaAwaitRemoteReply">>]
    ELSE [s |-> s, tk |-> <<>>]

\* Manager::ddma_nack: [s, tk]
ddma_nack(s) ==
    IF s.kernel_state.type = "DmaAwait"
    THEN [s |-> [s EXCEPT !.kernel_state = Running],
          tk |-> <<"DmaAwaitRemoteReply_timeout">>]
    ELSE [s |-> s, tk |-> <<>>]

\* Manager::ddma_remote_uploaded: the session it leaves
ddma_remote_uploaded(s, succeeded) ==
    LET s1 == IF succeeded THEN s ELSE runtime_exception(kernel_stop(s))
        ks == s1.kernel_state
    IN  CASE ks.type = "DmaPendingPlayback" -> [s1 EXCEPT !.kernel_state = Running]
          [] ks.type = "DmaPendingAwait" ->
                [s1 EXCEPT !.kernel_state = KS("DmaAwait", ks.max_time, 0, 0, 0)]
          [] ks.type = "DmaUploading" -> [s1 EXCEPT !.kernel_state = Running]
          [] OTHER -> s1

\* process_aux_packet, arm SubkernelMessageAck: [s, rt]
message_ack(s, self_dest) ==
    IF ~running(s) THEN [s |-> s, rt |-> <<>>]
    ELSE LET a == ack_slice(s)
             g == get_outgoing_slice(a.s)
         IN  IF a.more /\ g.meta # None
             THEN [s |-> g.s,
                   rt |-> <<SubkernelMessagePacket(self_dest, g.meta[1].destination,
                                                   s.id, g.meta[1].status)>>]
             ELSE [s |-> a.s, rt |-> <<>>]

----------------------------------------------------------------------------
\* The satellite: linkup_service runs process_aux_packets (one packet at most),
\* then process_kern_requests, for as long as the link is up.

Event(op, id, msg, ext, res) ==
    [op |-> op, id |-> id, msg |-> msg, ext |-> ext, res |-> res]

\* the kernel CPU goes on when the answer it waits for is sent to it
wake(kc, tk) == IF kc = "wait" /\ tk # <<>> THEN "run" ELSE kc

\* what every arm of process_aux_packet handled below leaves alone
AuxEnd(op, id) ==
    /\ svc_pc' = "kern"
    /\ inputs' = IF op = "none" THEN inputs ELSE inputs + 1
    /\ ev' = Event(op, id, "none", "none", "none")
    /\ UNCHANGED <<last_finished, now, mvars, dvars, cvars, xvars, pvars, lvars, gvars, qvars>>

\* ... and the arms that do not call into the upload of a trace
AuxDone(op, id) == AuxEnd(op, id) /\ UNCHANGED <<uploads, upload_log>>

AuxGuard == svc_pc = "aux" /\ ~panicked

\* the environment has inputs left
MoreInputs == inputs < MaxInputs

\* process_aux_packets: no packet was waiting
AuxNone ==
    /\ AuxGuard
    /\ to_kernel' = <<>> /\ routed' = <<>>
    /\ AuxDone("none", 0)
    /\ UNCHANGED <<kernels, session, kern_rx, kcpu, panicked, timed_out, unacked>>

\* process_aux_packet, arm SubkernelAddDataRequest
SubkernelAddDataRequest(id, status) ==
    /\ AuxGuard /\ MoreInputs
    /\ kernels' = add(kernels, id, status)
    /\ to_kernel' = <<>>
    /\ routed' = <<[type |-> "SubkernelAddDataReply", succeeded |-> TRUE]>>
    /\ AuxDone("SubkernelAddDataRequest", id)
    /\ UNCHANGED <<session, kern_rx, kcpu, panicked, timed_out, unacked>>

\* process_aux_packet, arm SubkernelLoadRunRequest
SubkernelLoadRunRequest(source, id, do_run, dma_running, reply1, reply2) ==
    /\ AuxGuard /\ MoreInputs
    \* a load that does not happen has no reply
    /\ kernels[id] # "complete" => reply1 = "LoadCompleted"
    /\ kernels[id] # "complete" \/ ~do_run \/ dma_running => reply2 = "LoadCompleted"
    /\ LET r == load_run_request(session, kernels, source, id, do_run, dma_running,
                                 reply1, reply2)
       IN  /\ session' = r.s
           /\ kern_rx' = IF r.restarted THEN <<>> ELSE kern_rx
           /\ kcpu' = IF r.started THEN "run"
                      ELSE IF ~r.restarted THEN kcpu
                      ELSE IF r.ok THEN "loaded" ELSE "off"
           /\ timed_out' = IF r.restarted THEN None ELSE timed_out
           /\ unacked' = IF r.restarted THEN 0 ELSE unacked
           /\ to_kernel' = IF r.started THEN <<"StartRequest">> ELSE <<>>
           /\ routed' = <<[type |-> "SubkernelLoadRunReply", destination |-> source,
                           succeeded |-> r.succeeded]>>
    /\ AuxDone("SubkernelLoadRunRequest", id)
    /\ UNCHANGED <<kernels, panicked>>

\* process_aux_packet, arm SubkernelLoadRunReply
SubkernelLoadRunReply ==
    /\ AuxGuard /\ MoreInputs
    /\ LET r == subkernel_load_run_reply(session)
       IN  /\ session' = r.s
           /\ to_kernel' = r.tk
           /\ kcpu' = wake(kcpu, r.tk)
    /\ routed' = <<>>
    /\ AuxDone("SubkernelLoadRunReply", 0)
    /\ UNCHANGED <<kernels, kern_rx, panicked, timed_out, unacked>>

\* process_aux_packet, arm SubkernelFinished
SubkernelFinishedPacket(id, with_exception) ==
    /\ AuxGuard /\ MoreInputs
    /\ Len(session.subkernels_finished) < MaxFinished
    /\ session' = remote_subkernel_finished(session, id, with_exception, RemoteDest)
    /\ to_kernel' = <<>> /\ routed' = <<>>
    /\ AuxDone("SubkernelFinished", id)
    /\ UNCHANGED <<kernels, kern_rx, kcpu, panicked, timed_out, unacked>>

\* process_aux_packet, arm SubkernelException
SubkernelException(last) ==
    /\ AuxGuard /\ MoreInputs
    /\ LET r == received_exception(session, last, self_destination)
       IN  /\ session' = r.s
           /\ to_kernel' = r.tk
           /\ routed' = r.rt
           /\ kcpu' = wake(kcpu, r.tk)
    /\ AuxDone("SubkernelException", 0)
    /\ UNCHANGED <<kernels, kern_rx, panicked, timed_out, unacked>>

\* process_aux_packet, arm SubkernelMessage
SubkernelMessage(source, id, status, length) ==
    /\ AuxGuard /\ MoreInputs
    /\ Len(session.in_queue) < MaxInQueue
    /\ IF running(session) /\ handle_incoming_panics(session, status, length)
       THEN /\ panicked' = TRUE
            /\ routed' = <<>>
            /\ UNCHANGED session
       ELSE /\ session' = IF running(session)
                          THEN handle_incoming(session, status, id) ELSE session
            /\ routed' = <<[type |-> "SubkernelMessageAck", destination |-> source]>>
            /\ UNCHANGED panicked
    /\ to_kernel' = <<>>
    /\ AuxDone("SubkernelMessage", id)
    /\ UNCHANGED <<kernels, kern_rx, kcpu, timed_out, unacked>>

\* process_aux_packet, arm SubkernelMessageAck
SubkernelMessageAck ==
    /\ AuxGuard /\ MoreInputs
    /\ LET r == message_ack(session, self_destination)
       IN  /\ session' = r.s
           /\ routed' = r.rt
           /\ unacked' = (IF unacked > 0 THEN unacked - 1 ELSE 0) + Len(r.rt)
    /\ to_kernel' = <<>>
    /\ AuxDone("SubkernelMessageAck", 0)
    /\ UNCHANGED <<kernels, kern_rx, kcpu, panicked, timed_out>>

\* the upload as started by dma::Manager::upload_traces
UploadLog(targets) == [targets |-> targets, acks |-> 0, nacks |-> 0, signals |-> <<>>]

\* dma::Manager::ack_upload calling ddma_remote_uploaded for every reply
ack_upload_each(up, succeeded) ==
    IF up = 0 THEN [uploads |-> 0, signal |-> None]
    ELSE [uploads |-> up - 1, signal |-> Some(succeeded)]

\* dma::Manager::ack_upload: the destinations still awaited, and the call of
\* ddma_remote_uploaded it makes, if any
ack_upload(up, succeeded) ==
    IF up = 0 THEN [uploads |-> 0, signal |-> None]
    ELSE IF ~succeeded THEN [uploads |-> 0, signal |-> Some(FALSE)]
    ELSE IF up = 1 THEN [uploads |-> 0, signal |-> Some(TRUE)]
    ELSE [uploads |-> up - 1, signal |-> None]

\* process_aux_packet, arm DmaAddTraceReply
DmaAddTraceReply(succeeded) ==
    /\ AuxGuard /\ MoreInputs
    /\ LET a == ack_upload(uploads, succeeded)
       IN  /\ uploads' = a.uploads
           /\ session' = IF a.signal # None
                          THEN ddma_remote_uploaded(session, a.signal[1])
                          ELSE session
           \* before the first upload there is nothing to log
           /\ upload_log' = IF upload_log.targets = 0 THEN upload_log
                             ELSE [upload_log EXCEPT
                                     !.acks = IF succeeded THEN @ + 1 ELSE @,
                                     !.nacks = IF succeeded THEN @ ELSE @ + 1,
                                     !.signals = @ \o a.signal]
    /\ to_kernel' = <<>> /\ routed' = <<>>
    /\ AuxEnd("DmaAddTraceReply", 0)
    /\ UNCHANGED <<kernels, kern_rx, kcpu, panicked, timed_out, unacked>>

\* process_aux_packet, arm DmaPlaybackReply
DmaPlaybackReply(succeeded) ==
    /\ AuxGuard /\ MoreInputs
    /\ LET r == IF succeeded THEN [s |-> session, tk |-> <<>>] ELSE ddma_nack(session)
       IN  /\ session' = r.s
           /\ to_kernel' = r.tk
           /\ kcpu' = wake(kcpu, r.tk)
    /\ routed' = <<>>
    /\ AuxDone("DmaPlaybackReply", 0)
    /\ UNCHANGED <<kernels, kern_rx, panicked, timed_out, unacked>>

\* process_aux_packet, arm DmaPlaybackStatus: dma::Manager::remote_finished, which
\* calls ddma_finished once every remote playback has reported (`all_done`)
DmaPlaybackStatus(all_done) ==
    /\ AuxGuard /\ MoreInputs
    /\ LET r == IF all_done THEN ddma_finished(session) ELSE [s |-> session, tk |-> <<>>]
       IN  /\ session' = r.s
           /\ to_kernel' = r.tk
           /\ kcpu' = wake(kcpu, r.tk)
    /\ routed' = <<>>
    /\ AuxDone("DmaPlaybackStatus", 0)
    /\ UNCHANGED <<kernels, kern_rx, panicked, timed_out, unacked>>

playback_request_unguarded(s, playback_res) ==
    [started |-> TRUE, succeeded |-> playback_res = "Ok"]

\* process_aux_packet, arm DmaPlaybackRequest, when it is handled locally:
\* [started, succeeded]; started = dma_manager.playback was called
playback_request(s, playback_res) ==
    IF ~running(s)
    THEN [started |-> TRUE, succeeded |-> playback_res = "Ok"]
    ELSE [started |-> FALSE, succeeded |-> FALSE]

\* outcomes of dma::Manager::playback
PlaybackResults == {"Ok", "Err"}

\* process_aux_packet, arm DmaPlaybackRequest
DmaPlaybackRequest(source, playback_res) ==
    /\ AuxGuard /\ MoreInputs
    \* a playback that is not attempted has no outcome
    /\ running(session) => playback_res = "Ok"
    /\ LET r == playback_request(session, playback_res)
       IN  /\ routed' = <<[type |-> "DmaPlaybackReply", destination |-> source,
                           succeeded |-> r.succeeded]>>
           /\ ev' = Event("DmaPlaybackRequest", 0, "none", "none",
                          IF r.started THEN "playback" ELSE "refused")
    /\ to_kernel' = <<>>
    /\ svc_pc' = "kern"
    /\ inputs' = inputs + 1
    /\ UNCHANGED <<kernels, session, last_finished, kern_rx, kcpu, now, panicked,
                   timed_out, unacked, uploads, upload_log, mvars, dvars, cvars, xvars, pvars, lvars, gvars, qvars>>

\* the number of SubkernelMessage packets among rt
message_slices(rt) == Cardinality({i \in 1..Len(rt) : rt[i].type = "SubkernelMessage"})

\* linkup_service: kernel_manager.process_kern_requests
ProcessKernRequests(pass_res, dma_res, targets) ==
    /\ svc_pc = "kern" /\ ~panicked
    \* an exchange that does not happen has no outcome
    /\ pass_res # "Ok" => session.kernel_state.type = "MsgAwait" /\ session.in_queue # <<>>
    /\ dma_res # "Ok" =>
          kern_rx # <<>> /\ Head(kern_rx).kind \in {"DmaPutRequest", "DmaStartRemoteRequest"}
    /\ targets # 1 =>
          kern_rx # <<>> /\ Head(kern_rx).kind = "DmaPutRequest" /\ dma_res = "Ok"
    /\ LET m0 == [s |-> session, lf |-> last_finished, rx |-> kern_rx, tk |-> <<>>,
                  rt |-> <<>>, res |-> "none", ext |-> "none", msg |-> "none",
                  to |-> timed_out]
           m == process_kern_requests(m0, now, self_destination, pass_res, dma_res)
       IN  /\ session' = m.s
           /\ last_finished' = m.lf
           /\ kern_rx' = m.rx
           /\ to_kernel' = m.tk
           /\ routed' = m.rt
           /\ timed_out' = m.to
           /\ unacked' = unacked + message_slices(m.rt)
           /\ kcpu' = IF m.ext = "KernelException" THEN "halt" ELSE wake(kcpu, m.tk)
           /\ ev' = Event("process_kern_requests", session.id, m.msg, m.ext, m.res)
           \* DmaPutRequest: dma_manager.upload_traces
           /\ LET put == m.msg = "DmaPutRequest" /\ dma_res = "Ok"
              IN  /\ uploads' = IF put THEN targets ELSE uploads
                  /\ upload_log' = IF put THEN UploadLog(targets) ELSE upload_log
    /\ svc_pc' = "aux"
    /\ UNCHANGED <<kernels, now, panicked, inputs, mvars, dvars, cvars, xvars, pvars, lvars, gvars, qvars>>

\* what the manager does not see until it polls: the clock and the requests of
\* the kernel CPU, which process_kern_requests alone reads
Unseen == Event("unseen", 0, "none", "none", "none")

\* timer::get_ms() advances
Tick(d) ==
    /\ svc_pc = "kern"
    /\ now + d <= MaxNow
    /\ d = 1 => now % DMA_AWAIT_TIMEOUT < MaxSmallTicks
    /\ now' = now + d
    /\ to_kernel' = <<>> /\ routed' = <<>>
    /\ ev' = Unseen
    /\ UNCHANGED <<kernels, session, last_finished, kern_rx, kcpu, svc_pc, panicked,
                   timed_out, inputs, unacked, uploads, upload_log, mvars, dvars, cvars, xvars, pvars, lvars, gvars, qvars>>

\* the kernel CPU sends a request, and waits if the request has an answer
KernelSend(msg) ==
    /\ svc_pc = "kern"
    /\ kcpu = "run" /\ Len(kern_rx) < MaxChan /\ MoreInputs
    /\ inputs' = inputs + 1
    /\ kern_rx' = Append(kern_rx, msg)
    /\ kcpu' = CASE msg.kind \in {"KernelFinished", "KernelException"} -> "halt"
                 [] msg.kind \in BlockingKinds -> "wait"
                 [] OTHER -> "run"
    /\ to_kernel' = <<>> /\ routed' = <<>>
    /\ ev' = Unseen
    /\ UNCHANGED <<kernels, session, last_finished, now, svc_pc, panicked, timed_out,
                   unacked, uploads, upload_log, mvars, dvars, cvars, xvars, pvars, lvars, gvars, qvars>>

----------------------------------------------------------------------------
\* The state after construction.

\* satellite: Manager::new, control freshly created, the link just up
SInit ==
    /\ kernels = [id \in KernelIds |-> "none"]
    /\ session = Session_new(0)
    /\ last_finished = None
    /\ kern_rx = <<>>
    /\ kcpu = "off"
    /\ to_kernel = <<>>
    /\ routed = <<>>
    /\ now = 0
    /\ svc_pc = "aux"
    /\ ev = Event("init", 0, "none", "none", "none")
    /\ panicked = FALSE
    /\ timed_out = None
    /\ inputs = 0
    /\ unacked = 0
    /\ uploads = 0
    /\ upload_log = UploadLog(0)

----------------------------------------------------------------------------
\* The master: rtio_mgt::drtio.  Tasks of the cooperative executor call
\* aux_transact, sync_tsc and process_unsolicited_aux; a task yields only at an
\* await, so the steps below are the stretches between awaits.

MaxTasks == 2          \* tasks calling into drtio at the same time
NumLinks == 2          \* csr::DRTIO.len()

Tasks == 1..MaxTasks
Links == 0..(NumLinks - 1)

\* drtioaux_async::Packet as far as the master looks at it
AsyncTypes == {"DmaPlaybackStatus", "SubkernelFinished", "SubkernelMessage"}
RoutableTypes ==
    {"DmaAddTraceRequest", "DmaAddTraceReply", "DmaRemoveTraceRequest",
     "DmaRemoveTraceReply", "DmaPlaybackRequest", "DmaPlaybackReply",
     "SubkernelLoadRunRequest", "SubkernelLoadRunReply", "SubkernelMessageAck",
     "SubkernelException", "SubkernelExceptionRequest"}
PlainTypes == {"EchoReply", "RoutingAck", "TSCAck"}

Packets ==
    [type : AsyncTypes \cup RoutableTypes, destination : Destinations,
     source : {INITIAL_DESTINATION}]
    \cup [type : PlainTypes, destination : {0}, source : {0}]

\* comms::ROUTING_TABLE as config_routing_table builds it: destination 0, the
\* master's own, has hop 0; every other one is reached through a link, hop =
\* linkno + 1.
RoutingTables ==
    {rt \in [Destinations -> 0..NumLinks] : \A d \in Destinations : rt[d] = 0 <=> d = 0}

get_master_destination(table) ==
    IF \E i \in Destinations : table[i] = 0
    THEN CHOOSE i \in Destinations : table[i] = 0 /\ \A j \in 0..(i - 1) : table[j] # 0
    ELSE 0

route_packet_bounce(table, linkno, packet, destination) ==
    [sent |-> <<<<(table[destination] - 1) % 256, packet>>>>, handled |-> "routed"]

\* route_packet: [sent, handled]
route_packet(table, linkno, packet, destination) ==
    LET dest_link == (table[destination] - 1) % 256
    IN  IF dest_link = linkno
        THEN [sent |-> <<>>, handled |-> "dropped"]
        ELSE [sent |-> <<<<dest_link, packet>>>>, handled |-> "routed"]

async_returns_all(table, linkno, packet) ==
    [ret |-> Some(packet), sent |-> <<>>, handled |-> "returned"]

\* process_async_packets: [ret, sent, handled]
process_async_packets(table, linkno, packet) ==
    LET master_destination == get_master_destination(table)
        r == route_packet(table, linkno, packet, packet.destination)
    IN  CASE packet.type \in {"DmaPlaybackStatus", "SubkernelFinished"} ->
                IF packet.destination = master_destination
                THEN [ret |-> None, sent |-> <<>>, handled |-> "local"]
                ELSE [ret |-> None, sent |-> r.sent, handled |-> r.handled]
          [] packet.type = "SubkernelMessage" ->
                IF packet.destination = master_destination
                THEN [ret |-> None,
                      sent |-> <<<<linkno, [type |-> "SubkernelMessageAck",
                                            destination |-> packet.source,
                                            source |-> 0]>>>>,
                      handled |-> "local"]
                ELSE [ret |-> None, sent |-> r.sent, handled |-> r.handled]
          [] packet.type \in RoutableTypes ->
                IF packet.destination = master_destination
                THEN [ret |-> Some(packet), sent |-> <<>>, handled |-> "returned"]
                ELSE [ret |-> None, sent |-> r.sent, handled |-> r.handled]
          [] OTHER -> [ret |-> Some(packet), sent |-> <<>>, handled |-> "returned"]

mutex_free_ignored(mx) == TRUE

\* AUX_MUTEX.async_lock() goes through when nobody holds the mutex
mutex_free(mx) == mx = None

MEvent(op, t, l, packet, handled, result) ==
    [op |-> op, task |-> t, link |-> l, packet |-> packet, handled |-> handled,
     result |-> result]

MOps == {"aux_transact", "sync_tsc", "process_unsolicited_aux"}

\* the request aux_transact is called with
Request == [type |-> "EchoRequest", destination |-> 0, source |-> 0]

\* a task calls aux_transact, sync_tsc or process_unsolicited_aux, up to the
\* await of the lock
Call(t, op, l) ==
    /\ task_pc[t] = "idle"
    /\ task_op' = [task_op EXCEPT ![t] = op]
    /\ task_link' = [task_link EXCEPT ![t] = l]
    /\ IF op = "aux_transact" /\ ~link_rx_up[l]
       THEN /\ mev' = MEvent("call", t, l, None, "none", Some(<<"Err", "LinkDown">>))
            /\ UNCHANGED task_pc
       ELSE /\ mev' = MEvent("call", t, l, None, "none", None)
            /\ task_pc' = [task_pc EXCEPT ![t] = "lock"]
    /\ sent' = <<>>
    /\ UNCHANGED <<ROUTING_TABLE, AUX_MUTEX, link_rx_up, svars, dvars, cvars, xvars, pvars, lvars, gvars, qvars>>

\* the task gets the lock; aux_transact sends its request
Lock(t) ==
    /\ task_pc[t] = "lock"
    /\ mutex_free(AUX_MUTEX)
    /\ AUX_MUTEX' = Some(t)
    /\ task_pc' = [task_pc EXCEPT ![t] = "transact"]
    /\ sent' = IF task_op[t] = "aux_transact" THEN <<<<task_link[t], Request>>>> ELSE <<>>
    /\ mev' = MEvent("lock", t, task_link[t], None, "none", None)
    /\ UNCHANGED <<ROUTING_TABLE, task_op, task_link, link_rx_up, svars, dvars, cvars, xvars, pvars, lvars, gvars, qvars>>

\* the task's receive returns a packet
RecvPacket(t, packet) ==
    /\ task_pc[t] = "transact"
    /\ task_op[t] = "process_unsolicited_aux" \/ link_rx_up[task_link[t]]
    /\ LET r == IF task_op[t] = "sync_tsc"
                THEN [ret |-> Some(packet), sent |-> <<>>, handled |-> "returned"]
                ELSE process_async_packets(ROUTING_TABLE, task_link[t], packet)
           ends == task_op[t] # "aux_transact" \/ r.ret # None
           result == CASE task_op[t] = "aux_transact" ->
                            IF r.ret # None THEN Some(<<"Ok", r.ret[1]>>) ELSE None
                       [] task_op[t] = "sync_tsc" ->
                            IF packet.type = "TSCAck" THEN Some(<<"Ok", packet>>)
                            ELSE Some(<<"Err", "UnexpectedReply">>)
                       [] OTHER -> Some(<<"Ok", "unit">>)
       IN  /\ sent' = r.sent
           /\ mev' = MEvent("recv", t, task_link[t], Some(packet), r.handled, result)
           /\ task_pc' = [task_pc EXCEPT ![t] = IF ends THEN "idle" ELSE "transact"]
           /\ AUX_MUTEX' = IF ends THEN None ELSE AUX_MUTEX
    /\ UNCHANGED <<ROUTING_TABLE, task_op, task_link, link_rx_up, svars, dvars, cvars, xvars, pvars, lvars, gvars, qvars>>

RecvErrors == {"Timeout", "AuxError", "LinkDown"}

\* the task's receive fails, or finds nothing
RecvError(t, err) ==
    /\ task_pc[t] = "transact"
    /\ task_op[t] = "process_unsolicited_aux"
         \/ ((err = "LinkDown") <=> ~link_rx_up[task_link[t]])
    /\ sent' = <<>>
    /\ mev' = MEvent("recv_error", t, task_link[t], None, "none",
                     IF task_op[t] = "process_unsolicited_aux" THEN Some(<<"Ok", "unit">>)
                     ELSE Some(<<"Err", err>>))
    /\ task_pc' = [task_pc EXCEPT ![t] = "idle"]
    /\ AUX_MUTEX' = None
    /\ UNCHANGED <<ROUTING_TABLE, task_op, task_link, link_rx_up, svars, dvars, cvars, xvars, pvars, lvars, gvars, qvars>>

\* the receiver of a link locks or loses lock
LinkChange(l) ==
    /\ link_rx_up' = [link_rx_up EXCEPT ![l] = ~@]
    /\ sent' = <<>>
    /\ mev' = MEvent("link", 0, l, None, "none", None)
    /\ UNCHANGED <<ROUTING_TABLE, AUX_MUTEX, task_pc, task_op, task_link, svars, dvars, cvars, xvars, pvars, lvars, gvars, qvars>>

MInit ==
    /\ ROUTING_TABLE \in RoutingTables
    /\ AUX_MUTEX = None
    /\ task_pc = [t \in Tasks |-> "idle"]
    /\ task_op = [t \in Tasks |-> "aux_transact"]
    /\ task_link = [t \in Tasks |-> 0]
    /\ link_rx_up = [l \in Links |-> TRUE]
    /\ sent = <<>>
    /\ mev = MEvent("init", 0, 0, None, "none", None)

\* the master with the routing table of a star: destination d behind link d - 1
MQuiet ==
    /\ MInit
    /\ ROUTING_TABLE = [d \in Destinations |-> IF d <= NumLinks THEN d ELSE NumLinks]

----------------------------------------------------------------------------
\* The satellite's aux dispatcher: process_aux_packet and its forwarding decision
\* (built with has_drtio_routing).

NumRepeaters == 1      \* csr::DRTIOREP.len()

Ranks == {1, 2}
\* the hops that differ in their handling: this satellite (0), its last repeater,
\* a repeater it does not have
Hops == {0, NumRepeaters, NumRepeaters + 1}
DDests == Destinations \ {0}     \* destinations the master addresses packets to

\* the arms of process_aux_packet that begin with forward!
ForwardTypes ==
    {"MonitorRequest", "InjectionRequest", "InjectionStatusRequest",
     "I2cStartRequest", "I2cRestartRequest", "I2cStopRequest", "I2cWriteRequest",
     "I2cReadRequest", "I2cSwitchSelectRequest", "SpiSetConfigRequest",
     "SpiWriteRequest", "SpiReadRequest", "AnalyzerHeaderRequest",
     "AnalyzerDataRequest", "DmaAddTraceRequest", "DmaAddTraceReply",
     "DmaRemoveTraceRequest", "DmaRemoveTraceReply", "DmaPlaybackRequest",
     "DmaPlaybackReply", "DmaPlaybackStatus", "SubkernelAddDataRequest",
     "SubkernelLoadRunRequest", "SubkernelLoadRunReply", "SubkernelFinished",
     "SubkernelExceptionRequest", "SubkernelException", "SubkernelMessage",
     "SubkernelMessageAck", "CoreMgmtGetLogRequest", "CoreMgmtClearLogRequest",
     "CoreMgmtSetLogLevelRequest", "CoreMgmtSetUartLogLevelRequest",
     "CoreMgmtConfigReadRequest", "CoreMgmtConfigReadContinue",
     "CoreMgmtConfigWriteRequest", "CoreMgmtConfigRemoveRequest",
     "CoreMgmtConfigEraseRequest", "CoreMgmtRebootRequest",
     "CoreMgmtAllocatorDebugRequest", "CoreMgmtFlashRequest",
     "CoreMgmtFlashAddDataRequest", "CoreMgmtDropLinkAck", "CXPReadRequest",
     "CXPWrite32Request", "CXPROIViewerSetupRequest", "CXPROIViewerDataRequest"}

\* the arms among them whose local handling sends or routes no answer
SilentTypes ==
    {"DmaAddTraceReply", "DmaRemoveTraceReply", "DmaPlaybackReply", "DmaPlaybackStatus",
     "SubkernelLoadRunReply", "SubkernelFinished", "SubkernelException",
     "SubkernelMessageAck", "CoreMgmtDropLinkAck"}

LearnTypes_status == {"DestinationStatusRequest"}

\* the arms that assign *self_destination
LearnTypes == {"DmaAddTraceRequest", "SubkernelAddDataRequest", "DestinationStatusRequest"}

\* outcomes of Repeater::aux_forward / aux_send
ForwardResults == {"Ok", "LinkDown"}

Dispatched(type, destination, act, local, reply, result) ==
    [type |-> type, destination |-> destination, act |-> act, local |-> local,
     reply |-> reply, result |-> result]

\* Packet::expects_response: the requests, whose handling answers
expects_response(type) == type \notin SilentTypes /\ type # "SubkernelMessage"

forward_never(table, rnk, destination, expects, fwd_res) ==
    [done |-> FALSE, act |-> "none", result |-> "Ok"]

\* macro forward!: [done, act, result]; done = the macro returned from the handler
forward(table, rnk, destination, expects, fwd_res) ==
    LET hop == table[destination][rnk]
    IN  IF hop # 0
        THEN IF hop - 1 < NumRepeaters
             THEN [done |-> TRUE,
                   act |-> IF expects THEN "aux_forward" ELSE "aux_send",
                   result |-> fwd_res]
             ELSE [done |-> TRUE, act |-> "none", result |-> "RoutingError"]
        ELSE [done |-> FALSE, act |-> "none", result |-> "Ok"]

\* process_aux_packet, an arm that begins with forward!
forwarded_arm(table, rnk, type, destination, fwd_res) ==
    LET f == forward(table, rnk, destination, expects_response(type), fwd_res)
    IN  IF f.done
        THEN Dispatched(type, destination, f.act, FALSE, "none", f.result)
        ELSE Dispatched(type, destination, "none", TRUE,
                        IF type \in SilentTypes THEN "none" ELSE "reply", "Ok")

\* process_aux_packet, arm DestinationStatusRequest
destination_status_arm(table, rnk, destination, fwd_res) ==
    LET hop == table[destination][rnk]
    IN  IF hop = 0
        THEN Dispatched("DestinationStatusRequest", destination, "none", TRUE,
                        "DestinationStatus", "Ok")
        ELSE IF hop <= NumRepeaters
        THEN Dispatched("DestinationStatusRequest", destination, "aux_forward", FALSE,
                        IF fwd_res = "Ok" THEN "none" ELSE "DestinationDownReply", "Ok")
        ELSE Dispatched("DestinationStatusRequest", destination, "none", FALSE,
                        "DestinationDownReply", "Ok")

\* process_aux_packet on a packet that carries a destination
ProcessAuxPacket(type, destination, fwd_res) ==
    \* a forwarding that does not happen has no outcome
    /\ routing_table[destination][rank] \notin 1..NumRepeaters => fwd_res = "Ok"
    /\ dev' = IF type = "DestinationStatusRequest"
              THEN destination_status_arm(routing_table, rank, destination, fwd_res)
              ELSE forwarded_arm(routing_table, rank, type, destination, fwd_res)
    /\ self_destination' = IF dev'.local /\ type \in LearnTypes
                           THEN destination ELSE self_destination
    /\ UNCHANGED <<routing_table, rank, svars, mvars, cvars, xvars, pvars, lvars, gvars, qvars>>

\* process_aux_packet, arm RoutingSetPath
RoutingSetPath(destination, hops) ==
    /\ routing_table' = [routing_table EXCEPT ![destination] = hops]
    /\ dev' = Dispatched("RoutingSetPath", destination, "none", TRUE, "RoutingAck", "Ok")
    /\ UNCHANGED <<rank, self_destination, svars, mvars, cvars, xvars, pvars, lvars, gvars, qvars>>

\* process_aux_packet, arm RoutingSetRank
RoutingSetRank(new_rank) ==
    /\ rank' = new_rank
    /\ dev' = Dispatched("RoutingSetRank", 0, "none", TRUE, "RoutingAck", "Ok")
    /\ UNCHANGED <<routing_table, self_destination, svars, mvars, cvars, xvars, pvars, lvars, gvars, qvars>>

\* satman main: routing table not yet loaded (no destination is local or behind a
\* repeater), rank = 1, destination = 1
DInit ==
    /\ routing_table = [d \in DDests |-> [r \in Ranks |-> NumRepeaters + 1]]
    /\ rank = INITIAL_RANK
    /\ self_destination = INITIAL_DESTINATION
    /\ dev = Dispatched("none", 0, "none", FALSE, "none", "Ok")

----------------------------------------------------------------------------
\* Chunked transfers.  The master cuts a payload into chunks with
\* drtio::partition_data and sends each in an aux transaction; the satellite
\* accumulates them: a subkernel binary in Manager::add, an interkernel message
\* in MessageManager::handle_incoming (of a running session), a config write in
\* mgmt::Manager.  A byte is a number; the bytes of a payload tell the call of
\* partition_data it belongs to and their place in it.

MASTER_PAYLOAD_MAX_SIZE == 2   \* bytes of one chunk
MaxLen == 5                    \* bytes of one payload
MaxTransfers == 2              \* calls of partition_data

Kinds == {"kernel", "message", "config"}

\* the payload of the no-th call, n bytes long
payload(no, n) == [j \in 1..n |-> no * 100 + j]

\* PayloadStatus::from_status
from_status(first, last) ==
    IF first THEN (IF last THEN "FirstAndLast" ELSE "First")
    ELSE (IF last THEN "Last" ELSE "Middle")

\* partition_data, one turn of the loop up to aux_transact: the chunk, its
\* status and the index after it
next_chunk(data, i) ==
    LET len == IF i + MASTER_PAYLOAD_MAX_SIZE < Len(data)
               THEN MASTER_PAYLOAD_MAX_SIZE
               ELSE Len(data) - i
        first == i = 0
        last == i + len = Len(data)
    IN  [slice |-> SubSeq(data, i + 1, i + len), len |-> len, i |-> i + len,
         status |-> from_status(first, last)]

KernelLibrary(lib, complete) == [library |-> lib, complete |-> complete]

\* Manager::add that appends to whatever entry there is
add_data_appending(entry, status, slice) ==
    LET kernel == IF entry # None THEN entry[1] ELSE KernelLibrary(<<>>, FALSE)
    IN  Some(KernelLibrary(kernel.library \o slice, is_last(status)))

\* Manager::add, on the entry of the id, with the bytes kept
add_data(entry, status, slice) ==
    LET kernel == IF entry # None /\ ~(entry[1].complete \/ is_first(status))
                  THEN entry[1]
                  ELSE KernelLibrary(<<>>, FALSE)
    IN  Some(KernelLibrary(kernel.library \o slice, is_last(status)))

\* MessageManager::handle_incoming with the bytes kept: [in_buffer, in_queue]
handle_incoming_data(buffer, queue, status, slice) ==
    LET buf0 == IF is_first(status) THEN None ELSE buffer
        buf1 == IF buf0 # None
                THEN [buf0[1] EXCEPT !.data = @ \o slice]
                ELSE [count |-> slice[1], data |-> Tail(slice)]
    IN  IF is_last(status)
        THEN [in_buffer |-> None, in_queue |-> Append(queue, buf1)]
        ELSE [in_buffer |-> Some(buf1), in_queue |-> queue]

\* process_aux_packet, arm CoreMgmtConfigWriteRequest: [config_payload, written]
config_write_request(buffer, last, slice) ==
    LET b == buffer \o slice
    IN  IF last THEN [config_payload |-> <<>>, written |-> <<b>>]
        ELSE [config_payload |-> b, written |-> <<>>]

ChunkEvent(op, kind, data, finished, completed) ==
    [op |-> op, kind |-> kind, data |-> data, finished |-> finished,
     completed |-> completed]

\* subkernel_upload, subkernel_send_message, config_write: partition_data is called
StartTransfer(kind, n) ==
    /\ tx = None
    /\ transfers < MaxTransfers
    /\ transfers' = transfers + 1
    /\ tx' = Some([kind |-> kind, data |-> payload(transfers + 1, n), i |-> 0])
    /\ cev' = ChunkEvent("StartTransfer", kind, payload(transfers + 1, n), FALSE, <<>>)
    /\ UNCHANGED <<library, in_buffer, in_queue, config_payload, config_written, fresh>>
    /\ UNCHANGED <<svars, mvars, dvars, xvars, pvars, lvars, gvars, qvars>>

\* partition_data, one turn of the loop.  aux_transact delivers the chunk or
\* not, and returns the reply or an error; on an error partition_data returns.
\* cev.completed is the payload the receiver completed in this step, if any.
SendChunk(delivered, replied) ==
    /\ tx # None
    /\ replied => delivered
    /\ LET t == tx[1]
           c == next_chunk(t.data, t.i)
           k == IF delivered THEN t.kind ELSE "none"
           a == add_data(library, c.status, c.slice)
           h == handle_incoming_data(in_buffer, in_queue, c.status, c.slice)
           w == config_write_request(config_payload, is_last(c.status), c.slice)
       IN  /\ library' = IF k = "kernel" THEN a ELSE library
           /\ in_buffer' = IF k = "message" THEN h.in_buffer ELSE in_buffer
           /\ in_queue' = IF k = "message" THEN h.in_queue ELSE in_queue
           /\ config_payload' = IF k = "config" THEN w.config_payload
                                ELSE config_payload
           /\ config_written' = IF k = "config" THEN config_written \o w.written
                                ELSE config_written
           /\ fresh' = IF ~delivered THEN fresh
                       ELSE [fresh EXCEPT ![t.kind] = IF is_first(c.status) THEN c.slice
                                                      ELSE @ \o c.slice]
           /\ tx' = IF replied /\ c.i < Len(t.data) THEN Some([t EXCEPT !.i = c.i])
                    ELSE None
           /\ cev' = ChunkEvent("SendChunk", t.kind, t.data,
                                replied /\ c.i = Len(t.data),
                                CASE k = "kernel" /\ a[1].complete -> <<a[1].library>>
                                  [] k = "message" /\ is_last(c.status) ->
                                        LET m == h.in_queue[Len(h.in_queue)]
                                        IN  <<(<<m.count>> \o m.data)>>
                                  [] k = "config" -> w.written
                                  [] OTHER -> <<>>)
    /\ UNCHANGED transfers
    /\ UNCHANGED <<svars, mvars, dvars, xvars, pvars, lvars, gvars, qvars>>

\* no transfer yet, nothing accumulated
CInit ==
    /\ tx = None
    /\ transfers = 0
    /\ library = None
    /\ in_buffer = None
    /\ in_queue = <<>>
    /\ config_payload = <<>>
    /\ config_written = <<>>
    /\ fresh = [k \in Kinds |-> <<>>]
    /\ cev = ChunkEvent("init", "none", <<>>, FALSE, <<>>)

----------------------------------------------------------------------------
\* CoaXPress control packets.  cxp_grabber::tick discovers the camera and runs
\* camera_setup; camera_setup and, once connected, the kernel's API read and
\* write registers of the camera with read_bytes and write_bytes.  A step is
\* the sending of a request or the reception of one packet (or of none).

TRANSMISSION_TIMEOUT == 200

CtrlOps == {"write", "read"}

\* camera_setup: the steps after reset_tag, in the order of the calls
SetupSteps_untested ==
    <<"check_master_channel", "disable_excess_channels", "set_host_connection_id",
      "negotiate_cxp_version", "negotiate_pak_max_size", "set_operation_linerate">>
SetupSteps ==
    <<"check_master_channel", "disable_excess_channels", "set_host_connection_id",
      "negotiate_cxp_version", "negotiate_pak_max_size", "set_operation_linerate",
      "test_channel_stability">>

\* the packets RXCTRLPacket::read_from returns while a request with the tag
\* `tag` is awaited: untagged, with that tag, with the tag before; length 4 is
\* the length a read asks for
RxPackets(tag) ==
    LET tags == {None, Some(tag), Some((tag + 255) % 256)}
    IN  [type : {"CtrlAck"}, tag : tags, time : {0}, length : {0}]
           \cup [type : {"CtrlReply"}, tag : tags, time : {0}, length : {4, 8}]
           \cup [type : {"CtrlDelay"}, tag : tags, time : {0, 1000, 2000}, length : {4}]

NoPacket == [type |-> "none", tag |-> None, time |-> 0, length |-> 0]

\* receive_ctrl_packet_timeout returning Err
RxErrors == {"TimedOut", "CorruptedPacket"}

reset_tag_skipped(tag) == tag

\* reset_tag: the value of TAG after it
reset_tag(tag) == 0

\* increment_tag
increment_tag(tag) == (tag + 1) % 256

\* check_tag
check_tag(tag_now, tag) ==
    IF tag # None /\ tag # Some(tag_now) THEN "TagMismatch" ELSE "Ok"

Outcome(result, timeout) == [result |-> result, timeout |-> timeout]

\* get_ctrl_ack that takes a CtrlDelay for an unexpected reply
get_ctrl_ack_no_delay(tag_now, pkt) ==
    CASE pkt.type = "CtrlAck" -> Outcome(check_tag(tag_now, pkt.tag), 0)
      [] OTHER -> Outcome("UnexpectedReply", 0)

\* get_ctrl_ack on the packet received, up to its call of itself: the result,
\* or "wait" and the timeout of the call
get_ctrl_ack(tag_now, pkt) ==
    CASE pkt.type = "CtrlAck" -> Outcome(check_tag(tag_now, pkt.tag), 0)
      [] pkt.type = "CtrlDelay" ->
            IF check_tag(tag_now, pkt.tag) # "Ok" THEN Outcome("TagMismatch", 0)
            ELSE Outcome("wait", pkt.time)
      [] OTHER -> Outcome("UnexpectedReply", 0)

\* get_ctrl_reply, likewise
get_ctrl_reply(tag_now, pkt, expected_length) ==
    CASE pkt.type = "CtrlReply" ->
            IF check_tag(tag_now, pkt.tag) # "Ok" THEN Outcome("TagMismatch", 0)
            ELSE IF pkt.length # expected_length THEN Outcome("UnexpectedReply", 0)
            ELSE Outcome("Ok", 0)
      [] pkt.type = "CtrlDelay" ->
            IF check_tag(tag_now, pkt.tag) # "Ok" THEN Outcome("TagMismatch", 0)
            ELSE Outcome("wait", pkt.time)
      [] OTHER -> Outcome("UnexpectedReply", 0)

\* write_bytes, read_bytes after the wait for the answer, whatever the result
finish_always(tag, with_tag, result) == IF with_tag THEN increment_tag(tag) ELSE tag

\* write_bytes, read_bytes after the wait for the answer: the value of TAG
finish(tag, with_tag, result) ==
    IF with_tag /\ result = "Ok" THEN increment_tag(tag) ELSE tag

XEvent(step, t, pkt, result, tag) ==
    [step |-> step, op |-> t.op, with_tag |-> t.with_tag, delayed |-> t.delayed,
     pkt |-> pkt, result |-> result, tag |-> tag]

NoTxn == [op |-> "none", with_tag |-> FALSE, delayed |-> FALSE]

\* tick, State::Detected: the state stored for the result of camera_setup
tick_detected_stuck(result) ==
    IF result = "Ok" THEN "Connected" ELSE "Detected"
tick_detected(result) ==
    IF result = "Ok" THEN "Connected" ELSE "Disconnected"

\* tick, State::Disconnected: discover_camera
Discover(found) ==
    /\ CXP_STATE = "Disconnected" /\ txn = None
    /\ CXP_STATE' = IF found THEN "Detected" ELSE "Disconnected"
    /\ epoch' = IF found THEN <<"discover_camera">> ELSE <<>>
    /\ xev' = XEvent("discover", NoTxn, NoPacket, IF found THEN "Ok" ELSE "Err", None)
    /\ UNCHANGED <<TAG, WITH_TAG, setup, txn, epoch_sent>>
    /\ UNCHANGED <<svars, mvars, dvars, cvars, pvars, lvars, gvars, qvars>>

\* tick, State::Detected: camera_setup is entered
SetupBegin ==
    /\ CXP_STATE = "Detected" /\ setup = None
    /\ TAG' = reset_tag(TAG)
    /\ setup' = Some([with_tag |-> FALSE, phase |-> 1, sent |-> FALSE])
    /\ epoch_sent' = FALSE
    /\ xev' = XEvent("setup", NoTxn, NoPacket, "none", Some(TAG))
    /\ UNCHANGED <<CXP_STATE, WITH_TAG, txn, epoch>>
    /\ UNCHANGED <<svars, mvars, dvars, cvars, pvars, lvars, gvars, qvars>>

\* write_bytes, read_bytes up to the wait for the answer.  In camera_setup the
\* calls pass the with_tag negotiated so far, but for one read that passes
\* true (`fixed`); the kernel's API passes cxp_grabber::with_tag()
CtrlRequest(op, fixed) ==
    /\ txn = None
    /\ setup # None \/ CXP_STATE = "Connected"
    /\ setup # None => setup[1].phase <= Len(SetupSteps)
    /\ fixed => /\ setup # None
                /\ SetupSteps[setup[1].phase] = "test_channel_stability"
                /\ op = "read"
    /\ LET with_tag == IF fixed THEN TRUE
                       ELSE IF setup # None THEN setup[1].with_tag
                       ELSE WITH_TAG
           t == [op |-> op, with_tag |-> with_tag,
                 tag |-> IF with_tag THEN Some(TAG) ELSE None,
                 timeout |-> TRANSMISSION_TIMEOUT, delayed |-> FALSE]
       IN  /\ txn' = Some(t)
           /\ xev' = XEvent("request", t, NoPacket, "none", t.tag)
    /\ epoch_sent' = TRUE
    /\ setup' = IF setup = None THEN None ELSE Some([setup[1] EXCEPT !.sent = TRUE])
    /\ UNCHANGED <<TAG, CXP_STATE, WITH_TAG, epoch>>
    /\ UNCHANGED <<svars, mvars, dvars, cvars, pvars, lvars, gvars, qvars>>

\* write_bytes, read_bytes return; an error ends camera_setup, and tick with it
Return(pkt, result) ==
    LET t == txn[1]
    IN  /\ TAG' = finish(TAG, t.with_tag, result)
        /\ txn' = None
        /\ xev' = XEvent("finish", t, pkt, result, t.tag)
        /\ IF setup # None /\ result # "Ok"
           THEN /\ setup' = None /\ WITH_TAG' = FALSE
                /\ CXP_STATE' = tick_detected(result) /\ epoch' = <<>>
           ELSE UNCHANGED <<setup, WITH_TAG, CXP_STATE, epoch>>
        /\ UNCHANGED epoch_sent
        /\ UNCHANGED <<svars, mvars, dvars, cvars, pvars, lvars, gvars, qvars>>

\* get_ctrl_ack, get_ctrl_reply: a packet is received; in a wait of 0 ms
\* receive_ctrl_packet_timeout does not look for one
Receive(pkt) ==
    /\ txn # None
    /\ txn[1].timeout > 0
    /\ LET t == txn[1]
           r == IF t.op = "write" THEN get_ctrl_ack(TAG, pkt)
                ELSE get_ctrl_reply(TAG, pkt, 4)
       IN  IF r.result = "wait"
           THEN /\ txn' = Some([t EXCEPT !.timeout = r.timeout, !.delayed = TRUE])
                /\ xev' = XEvent("delay", t, pkt, "none", t.tag)
                /\ UNCHANGED <<TAG, CXP_STATE, WITH_TAG, setup, epoch_sent, epoch>>
                /\ UNCHANGED <<svars, mvars, dvars, cvars, pvars, lvars, gvars, qvars>>
           ELSE Return(pkt, r.result)

\* get_ctrl_ack, get_ctrl_reply: no packet within the timeout, or a bad one
ReceiveError(err) ==
    /\ txn # None
    /\ Return(NoPacket, err)

\* camera_setup: a step returns.  Ok when its registers read as required and
\* the channel stayed up; otherwise UnsupportedTopology, ConnectionLost,
\* UnsupportedVersion, UnsupportedSpeed, UnstableTX or UnstableRX, and `?`
\* returns the error to tick, which stores Disconnected.  negotiate_cxp_version
\* yields with_tag (v2: the revision in use is 2.0 or later)
SetupStep(ok, v2) ==
    /\ setup # None /\ setup[1].phase <= Len(SetupSteps)
    /\ txn = None /\ setup[1].sent
    /\ v2 => ok /\ SetupSteps[setup[1].phase] = "negotiate_cxp_version"
    /\ IF ok
       THEN /\ setup' = Some([with_tag |-> IF SetupSteps[setup[1].phase]
                                                = "negotiate_cxp_version"
                                           THEN v2 ELSE setup[1].with_tag,
                              phase |-> setup[1].phase + 1, sent |-> FALSE])
            /\ epoch' = Append(epoch, SetupSteps[setup[1].phase])
            /\ UNCHANGED <<WITH_TAG, CXP_STATE>>
       ELSE /\ setup' = None /\ WITH_TAG' = FALSE
            /\ CXP_STATE' = tick_detected("Err") /\ epoch' = <<>>
    /\ xev' = XEvent("step", NoTxn, NoPacket, IF ok THEN "Ok" ELSE "Err", None)
    /\ UNCHANGED <<TAG, txn, epoch_sent>>
    /\ UNCHANGED <<svars, mvars, dvars, cvars, pvars, lvars, gvars, qvars>>

\* camera_setup returns Ok(with_tag), tick goes to State::Connected
SetupDone ==
    /\ setup # None /\ setup[1].phase = Len(SetupSteps) + 1
    /\ txn = None
    /\ WITH_TAG' = setup[1].with_tag
    /\ CXP_STATE' = tick_detected("Ok")
    /\ setup' = None
    /\ xev' = XEvent("connected", NoTxn, NoPacket, "Ok", None)
    /\ UNCHANGED <<TAG, txn, epoch_sent, epoch>>
    /\ UNCHANGED <<svars, mvars, dvars, cvars, pvars, lvars, gvars, qvars>>

\* tick, State::Connected: the master channel is not ready any more
Disconnect ==
    /\ CXP_STATE = "Connected" /\ txn = None
    /\ WITH_TAG' = FALSE
    /\ CXP_STATE' = "Disconnected"
    /\ epoch' = <<>>
    /\ xev' = XEvent("disconnect", NoTxn, NoPacket, "Ok", None)
    /\ UNCHANGED <<TAG, setup, txn, epoch_sent>>
    /\ UNCHANGED <<svars, mvars, dvars, cvars, pvars, lvars, gvars, qvars>>

\* the statics as initialised
XInit ==
    /\ TAG = 0
    /\ CXP_STATE = "Disconnected"
    /\ WITH_TAG = FALSE
    /\ setup = None
    /\ txn = None
    /\ epoch_sent = FALSE
    /\ epoch = <<>>
    /\ xev = XEvent("init", NoTxn, NoPacket, "none", None)

----------------------------------------------------------------------------
\* CoaXPress control packets on the wire.  The camera sends a frame into the
\* receive slot of CTRL_PACKET_MAXSIZE bytes; on the way one byte may change;
\* RXCTRLPacket::read_from decodes the slot.  A u32 on the wire is kept as its
\* four bytes in network order.

CTRL_PACKET_MAXSIZE == 128
DATA_MAXSIZE == CTRL_PACKET_MAXSIZE - 4 * 7

RECURSIVE BitAnd(_, _)
BitAnd(a, b) ==
    IF a = 0 \/ b = 0 THEN 0
    ELSE (a % 2) * (b % 2) + 2 * BitAnd(a \div 2, b \div 2)

RECURSIVE BitOr(_, _)
BitOr(a, b) ==
    IF a = 0 THEN b ELSE IF b = 0 THEN a
    ELSE (IF a % 2 = 1 \/ b % 2 = 1 THEN 1 ELSE 0) + 2 * BitOr(a \div 2, b \div 2)

RECURSIVE BitXor(_, _)
BitXor(a, b) ==
    IF a = 0 THEN b ELSE IF b = 0 THEN a
    ELSE ((a + b) % 2) + 2 * BitXor(a \div 2, b \div 2)

\* the byte at offset pos of the slot; past the frame the slot holds zeros
At(buf, pos) == IF pos < Len(buf) THEN buf[pos + 1] ELSE 0

Slice(buf, from, to) == [i \in 1..(to - from) |-> At(buf, from + i - 1)]

\* crc::crc32::checksum_ieee: the reflected CRC-32 of IEEE 802.3, the register
\* kept as <<high half, low half>>
RECURSIVE crc_shift(_, _)
crc_shift(reg, n) ==
    IF n = 0 THEN reg
    ELSE LET hi == reg[1] \div 2
             lo == (reg[2] \div 2) + (reg[1] % 2) * 32768
         IN  IF reg[2] % 2 = 1
             THEN crc_shift(<<BitXor(hi, 60856), BitXor(lo, 33568)>>, n - 1)
             ELSE crc_shift(<<hi, lo>>, n - 1)

\* the register after the bytes lo..hi, taken in order as the loop takes them;
\* the range is halved only to keep the evaluation shallow
RECURSIVE crc_update(_, _, _, _)
crc_update(reg, bytes, lo, hi) ==
    IF lo > hi THEN reg
    ELSE IF lo = hi THEN crc_shift(<<reg[1], BitXor(reg[2], bytes[lo])>>, 8)
    ELSE LET mid == (lo + hi) \div 2
             r == crc_update(reg, bytes, lo, mid)
         IN  IF Len(r) = 2 THEN crc_update(r, bytes, mid + 1, hi) ELSE r

checksum_ieee(bytes) ==
    LET reg == crc_update(<<65535, 65535>>, bytes, 1, Len(bytes))
    IN  <<65535 - reg[1], 65535 - reg[2]>>

\* get_cxp_crc: (!checksum_ieee(bytes)).swap_bytes(), as the bytes
\* read_u32 / write_u32 move for it
get_cxp_crc(bytes) ==
    LET c == checksum_ieee(bytes)
        hi == 65535 - c[1]
        lo == 65535 - c[2]
    IN  <<lo % 256, lo \div 256, hi % 256, hi \div 256>>

\* write_all_4x
write_all_4x(buf) == [i \in 1..(4 * Len(buf)) |-> buf[((i - 1) \div 4) + 1]]

\* read_exact_4x: n bytes from offset pos
read_exact_4x_unvoted(buf, pos, n) ==
    [i \in 1..n |-> At(buf, pos + 4 * (i - 1))]
read_exact_4x(buf, pos, n) ==
    [i \in 1..n |->
        LET a == At(buf, pos + 4 * (i - 1))
            b == At(buf, pos + 4 * (i - 1) + 1)
            c == At(buf, pos + 4 * (i - 1) + 2)
            d == At(buf, pos + 4 * (i - 1) + 3)
        IN  BitOr(BitOr(BitAnd(BitAnd(a, b), c), BitAnd(BitAnd(a, b), d)),
                  BitOr(BitAnd(BitAnd(a, c), d), BitAnd(BitAnd(b, c), d)))]

\* Result<RXCTRLPacket, Error>; a panic of the decoder is the result "panic"
Rx(result, kind, tag, data) ==
    [result |-> result, kind |-> kind, tag |-> tag, data |-> data]

get_ctrl_packet(buf, with_tag) ==
    LET tag == IF with_tag THEN Some(read_exact_4x(buf, 4, 1)[1]) ELSE None
        p0 == IF with_tag THEN 8 ELSE 4
        ackcode == read_exact_4x(buf, p0, 1)[1]
        lenb == Slice(buf, p0 + 4, p0 + 8)
        length == lenb[4]
        p2 == p0 + 8 + length
        p3 == p2 + ((4 - (p2 % 4)) % 4)
        data == Slice(buf, p0 + 8, p0 + 8 + length)
    IN  IF ackcode \in {0, 4}
        THEN IF lenb[1] # 0 \/ lenb[2] # 0 \/ lenb[3] # 0 \/ length > DATA_MAXSIZE
             THEN Rx("panic", "none", None, <<>>)
             ELSE IF Slice(buf, p3, p3 + 4) # get_cxp_crc(Slice(buf, 4, p3))
             THEN Rx("CorruptedPacket", "none", None, <<>>)
             ELSE IF ackcode = 0
             THEN Rx("Ok", "CtrlReply", tag, data)
             ELSE Rx("Ok", "CtrlDelay", tag,
                     [i \in 1..4 |-> IF i <= length THEN data[i] ELSE 0])
        ELSE IF ackcode = 1
        THEN Rx("Ok", "CtrlAck", tag, <<>>)
        ELSE Rx("CtrlAckError", "none", None, <<ackcode>>)

read_from(buf) ==
    LET ty == read_exact_4x(buf, 0, 1)[1]
    IN  IF ty = 3 THEN get_ctrl_packet(buf, FALSE)
        ELSE IF ty = 6 THEN get_ctrl_packet(buf, TRUE)
        ELSE Rx("UnknownPacket", "none", None, <<ty>>)

\* the control acknowledgements a camera sends: the type, the tag of a tagged
\* one, the code, for the codes 0x00 and 0x04 the length and the data padded to
\* a word, then the CRC of all that follows the type
Frame(f) ==
    LET head == write_all_4x(IF f.tagged THEN <<6, f.tag, f.code>> ELSE <<3, f.code>>)
        n == Len(f.data)
        body == IF f.code \in {0, 4}
                THEN <<0, 0, 0, n>> \o f.data \o [i \in 1..((4 - (n % 4)) % 4) |-> 0]
                ELSE <<>>
        all == head \o body
    IN  all \o get_cxp_crc(SubSeq(all, 5, Len(all)))

RxFrames ==
    [kind : {"ctrl"}, tagged : BOOLEAN, tag : {7}, code : {1, 64}, data : {<<>>}]
    \cup [kind : {"ctrl"}, tagged : BOOLEAN, tag : {7}, code : {0},
          data : {<<1, 2>>, <<0, 0, 3, 232>>}]
    \cup [kind : {"ctrl"}, tagged : BOOLEAN, tag : {7}, code : {4},
          data : {<<0, 0, 3, 232>>}]
    \cup [kind : {"byte"}, tagged : {FALSE}, tag : {0}, code : {0},
          data : {<<b>> : b \in 0..255}]

\* the camera sends a control acknowledgement, or one byte four times over
Transmit(f) ==
    /\ rxsent = None
    /\ rxsent' = Some(f)
    /\ rxbuf' = IF f.kind = "byte" THEN write_all_4x(f.data) ELSE Frame(f)
    /\ UNCHANGED <<damaged, rxout>>
    /\ UNCHANGED <<svars, mvars, dvars, cvars, xvars, lvars, gvars, qvars>>

\* one byte of the slot arrives changed: any other value for a copy of the
\* single byte, one flipped bit for a byte of a control acknowledgement
Damage ==
    /\ rxsent # None /\ rxout = None /\ ~damaged
    /\ \E i \in 1..Len(rxbuf) :
          \E v \in IF rxsent[1].kind = "byte" THEN 0..255
                   ELSE {BitXor(rxbuf[i], 2 ^ k) : k \in 0..7} :
             /\ v # rxbuf[i]
             /\ rxbuf' = [rxbuf EXCEPT ![i] = v]
    /\ damaged' = TRUE
    /\ UNCHANGED <<rxsent, rxout>>
    /\ UNCHANGED <<svars, mvars, dvars, cvars, xvars, lvars, gvars, qvars>>

\* receive_ctrl_packet: read_from on the slot; read_4x_u8 for the single byte
Decode ==
    /\ rxsent # None /\ rxout = None
    /\ rxout' = Some(IF rxsent[1].kind = "byte"
                     THEN Rx("Ok", "byte", None, read_exact_4x(rxbuf, 0, 1))
                     ELSE read_from(rxbuf))
    /\ UNCHANGED <<rxsent, rxbuf, damaged>>
    /\ UNCHANGED <<svars, mvars, dvars, cvars, xvars, lvars, gvars, qvars>>

\* receive_ctrl_packet: core_rx_pending_packet_write(1) frees the slot
Release ==
    /\ rxout # None
    /\ rxsent' = None /\ rxbuf' = <<>> /\ damaged' = FALSE /\ rxout' = None
    /\ UNCHANGED <<svars, mvars, dvars, cvars, xvars, lvars, gvars, qvars>>

PInit ==
    /\ rxsent = None /\ rxbuf = <<>> /\ damaged = FALSE /\ rxout = None

----------------------------------------------------------------------------
\* The master's link supervisor.  link_task visits every link, pings the links
\* whose receiver has locked, then surveys the destinations and sleeps 200 ms.
\* A step is one visit of a link, one turn of ping_remote's loop, the three
\* transactions after a ping, or the survey of one destination.  The locks
\* change with LinkChange; report_async_rtio_errors and the host's read of the
\* error mask run between the steps.

ASYNC_ERROR_COLLISION == 1
ASYNC_ERROR_BUSY == 2
ASYNC_ERROR_SEQUENCE_ERROR == 4
PING_COUNT_MAX == 100

InitSteps == {"sync_tsc", "load_routing_table", "set_rank"}

StatusReplies ==
    {"DestinationDownReply", "DestinationOkReply", "DestinationSequenceErrorReply",
     "DestinationCollisionReply", "DestinationBusyReply", "EchoReply", "Err"}

LEvent(step, link, destination, reply, performed) ==
    [step |-> step, link |-> link, destination |-> destination, reply |-> reply,
     performed |-> performed]

At_links(l) == [at |-> "links", i |-> l, count |-> 0]

\* link_task: the link after l in the for loop, then destination_survey
after_link(l) ==
    IF l + 1 < NumLinks THEN At_links(l + 1) ELSE [at |-> "survey", i |-> 0, count |-> 0]

\* link_task: one turn of `for linkno in 0..csr::DRTIO.len()` up to the ping
LinkVisit ==
    /\ lpc.at = "links"
    /\ LET l == lpc.i
       IN  IF up_links[l]
           THEN /\ up_links' = [up_links EXCEPT ![l] = link_rx_up[l]]
                /\ degraded' = [degraded EXCEPT ![l] = IF link_rx_up[l] THEN @ ELSE {}]
                /\ lpc' = after_link(l)
                /\ lev' = LEvent(IF link_rx_up[l] THEN "unsolicited" ELSE "down",
                                 l, 0, "none", {})
           ELSE /\ lpc' = IF link_rx_up[l]
                          THEN [at |-> "ping", i |-> l, count |-> 0]
                          ELSE after_link(l)
                /\ lev' = LEvent(IF link_rx_up[l] THEN "pinging" ELSE "idle",
                                 l, 0, "none", {})
                /\ UNCHANGED <<up_links, degraded>>
    /\ UNCHANGED <<up_destinations, SEEN_ASYNC_ERRORS>>
    /\ UNCHANGED <<svars, mvars, dvars, cvars, xvars, pvars, gvars, qvars>>

\* ping_remote: `count += 1; if count > 100 { return 0; }`
ping_over_never(count) == FALSE
ping_over(count) == count > PING_COUNT_MAX

\* ping_remote: one turn of its loop; lpc.count is the EchoRequests sent
PingRemote(reply) ==
    /\ lpc.at = "ping"
    /\ LET l == lpc.i
       IN  IF ~link_rx_up[l] \/ ping_over(lpc.count + 1)
           THEN /\ reply = "Err"
                /\ lpc' = after_link(l)
                /\ lev' = LEvent("ping_failed", l, 0, "none", {})
                /\ UNCHANGED up_links
           ELSE IF reply = "EchoReply"
           THEN /\ up_links' = [up_links EXCEPT ![l] = TRUE]
                /\ lpc' = [at |-> "init", i |-> l, count |-> lpc.count + 1]
                /\ lev' = LEvent("ping_ok", l, 0, reply, {})
           ELSE /\ lpc' = [lpc EXCEPT !.count = @ + 1]
                /\ lev' = LEvent("echo", l, 0, reply, {})
                /\ UNCHANGED up_links
    /\ UNCHANGED <<up_destinations, SEEN_ASYNC_ERRORS, degraded>>
    /\ UNCHANGED <<svars, mvars, dvars, cvars, xvars, pvars, gvars, qvars>>

\* link_task: sync_tsc, load_routing_table and set_rank after the ping; each
\* may fail, which is logged
LinkInit(failed) ==
    /\ lpc.at = "init"
    /\ degraded' = [degraded EXCEPT ![lpc.i] = failed]
    /\ lpc' = after_link(lpc.i)
    /\ lev' = LEvent("init", lpc.i, 0, "none", InitSteps)
    /\ UNCHANGED <<up_links, up_destinations, SEEN_ASYNC_ERRORS>>
    /\ UNCHANGED <<svars, mvars, dvars, cvars, xvars, pvars, gvars, qvars>>

\* destination_survey: the bit of an error reply
async_error_of(reply) ==
    IF reply = "DestinationSequenceErrorReply" THEN ASYNC_ERROR_SEQUENCE_ERROR
    ELSE IF reply = "DestinationCollisionReply" THEN ASYNC_ERROR_COLLISION
    ELSE IF reply = "DestinationBusyReply" THEN ASYNC_ERROR_BUSY
    ELSE 0

\* destination_survey: one turn of its loop, then the delay of 200 ms after the
\* last destination
SurveyDest(reply) ==
    /\ lpc.at = "survey"
    /\ LET d == lpc.i
           hop == ROUTING_TABLE[d]
           routed_here == hop > 0 /\ hop <= NumLinks
           asked == routed_here /\ up_links[hop - 1]
       IN  /\ (reply = "none") <=> ~asked
           /\ IF ~routed_here
              THEN UNCHANGED <<up_destinations, SEEN_ASYNC_ERRORS>>
              ELSE IF up_destinations[d]
              THEN /\ up_destinations' =
                        [up_destinations EXCEPT
                            ![d] = asked /\ reply # "DestinationDownReply"]
                   /\ SEEN_ASYNC_ERRORS' = BitOr(SEEN_ASYNC_ERRORS, async_error_of(reply))
              ELSE /\ up_destinations' =
                        [up_destinations EXCEPT ![d] = reply = "DestinationOkReply"]
                   /\ UNCHANGED SEEN_ASYNC_ERRORS
           /\ lpc' = IF d + 1 \in Destinations
                     THEN [at |-> "survey", i |-> d + 1, count |-> 0]
                     ELSE At_links(0)
           /\ lev' = LEvent("survey", IF routed_here THEN hop - 1 ELSE 0, d, reply, {})
    /\ UNCHANGED <<up_links, degraded>>
    /\ UNCHANGED <<svars, mvars, dvars, cvars, xvars, pvars, gvars, qvars>>

\* report_async_rtio_errors: the core reports errors of the local channels
ReportAsync(errors) ==
    /\ SEEN_ASYNC_ERRORS' = errors
    /\ lev' = LEvent("report", 0, 0, "none", {})
    /\ UNCHANGED <<up_links, up_destinations, lpc, degraded>>
    /\ UNCHANGED <<svars, mvars, dvars, cvars, xvars, pvars, gvars, qvars>>

\* get_async_errors: the host is told the errors at the end of a kernel
HostRead ==
    /\ SEEN_ASYNC_ERRORS' = 0
    /\ lev' = LEvent("host", 0, 0, "none", {})
    /\ UNCHANGED <<up_links, up_destinations, lpc, degraded>>
    /\ UNCHANGED <<svars, mvars, dvars, cvars, xvars, pvars, gvars, qvars>>

\* link_task as it starts: no link up, the master's own destination up
LInit ==
    /\ up_links = [l \in Links |-> FALSE]
    /\ up_destinations = [d \in Destinations |-> d = get_master_destination(ROUTING_TABLE)]
    /\ SEEN_ASYNC_ERRORS = 0
    /\ lpc = At_links(0)
    /\ degraded = [l \in Links |-> {}]
    /\ lev = LEvent("init", 0, 0, "none", {})

----------------------------------------------------------------------------
\* Core management: the write of a boot image and of a configuration value to
\* the master itself (local_coremgmt) or to a satellite (remote_coremgmt on the
\* master, the CoreMgmt arms of process_aux_packet and mgmt::Manager on the
\* satellite).  The host is sent one Reply per request.

\* NativeEndian::read_u32 of the trailer against crc32::checksum_ieee of the rest
crc_matches(image) ==
    LET bin_len == Len(image) - 4
        actual_crc == checksum_ieee(SubSeq(image, 1, bin_len))
    IN  /\ actual_crc[2] = image[bin_len + 1] + 256 * image[bin_len + 2]
        /\ actual_crc[1] = image[bin_len + 3] + 256 * image[bin_len + 4]

\* satman mgmt::Manager::write_image.  `image.len() - 4` and split_at panic on
\* an image of less than four bytes; libconfig::write is expected to succeed
write_image_unchecked(image, write_ok) ==
    IF Len(image) < 4 \/ ~write_ok
    THEN [result |-> "panic", stored |-> None]
    ELSE [result |-> "written", stored |-> Some(SubSeq(image, 1, Len(image) - 4))]
write_image(image, write_ok) ==
    IF Len(image) < 4 \/ ~crc_matches(image) \/ ~write_ok
    THEN [result |-> "panic", stored |-> None]
    ELSE [result |-> "written", stored |-> Some(SubSeq(image, 1, Len(image) - 4))]

\* the images with the CRC-32 of their content as trailer: "123456789" with its
\* check value cbf43926, and two short ones
GoodImages ==
    {<<49, 50, 51, 52, 53, 54, 55, 56, 57, 38, 57, 244, 203>>}
    \cup {b \o <<checksum_ieee(b)[2] % 256, checksum_ieee(b)[2] \div 256,
                 checksum_ieee(b)[1] % 256, checksum_ieee(b)[1] \div 256>> :
            b \in {<<>>, <<7>>}}

\* the images a host sends: the good ones, those with one bit flipped, and two
\* of less than four bytes
Images ==
    GoodImages
    \cup UNION {{[g EXCEPT ![i] = BitXor(g[i], 2 ^ k)] : i \in 1..Len(g), k \in 0..7} :
                    g \in GoodImages}
    \cup {<<>>, <<1, 2, 3>>}

GOp(op, image, failed) == [op |-> op, image |-> image, failed |-> failed]

\* local_coremgmt::image_write, for an image that has its four bytes of CRC
LocalImageWrite(image) ==
    /\ node = "running" /\ fl = None /\ gop.op = "none"
    /\ Len(image) >= 4
    /\ IF crc_matches(image)
       THEN /\ storage' = Some(SubSeq(image, 1, Len(image) - 4))
            /\ host_reply' = "RebootImminent"
            /\ node' = "rebooted"
       ELSE /\ host_reply' = "Error"
            /\ UNCHANGED <<storage, node>>
    /\ gop' = GOp("image_write", image, ~crc_matches(image))
    /\ UNCHANGED fl
    /\ UNCHANGED <<svars, mvars, dvars, cvars, xvars, pvars, lvars, qvars>>

\* remote_coremgmt::image_write up to its loop, and the satellite's arm for
\* CoreMgmtFlashRequest; ok: the transaction brought CoreMgmtReply
FlashRequest(image, ok) ==
    /\ node = "running" /\ fl = None /\ gop.op = "none"
    /\ IF ~ok
       THEN /\ host_reply' = "Error" /\ fl' = None
            /\ gop' = GOp("image_write", image, TRUE)
       ELSE IF image = <<>>
       THEN \* `while !image.is_empty()` has no turn: nothing is sent on
            /\ host_reply' = "RebootImminent" /\ fl' = None
            /\ gop' = GOp("image_write", image, FALSE)
       ELSE /\ fl' = Some([rest |-> image, image_payload |-> <<>>, acked |-> FALSE])
            /\ gop' = GOp("image_write", image, FALSE)
            /\ UNCHANGED host_reply
    /\ UNCHANGED <<storage, node>>
    /\ UNCHANGED <<svars, mvars, dvars, cvars, xvars, pvars, lvars, qvars>>

\* remote_coremgmt::image_write: one turn of its loop, and the satellite's arm
\* for CoreMgmtFlashAddDataRequest: CoreMgmtReply, or CoreMgmtDropLink for the
\* last chunk, which the master acknowledges before it tells the host
FlashAddData(ok) ==
    /\ fl # None /\ ~fl[1].acked
    /\ LET f == fl[1]
           len == IF Len(f.rest) < MASTER_PAYLOAD_MAX_SIZE THEN Len(f.rest)
                  ELSE MASTER_PAYLOAD_MAX_SIZE
           last == len = Len(f.rest)
       IN  IF ~ok
           THEN /\ host_reply' = "Error" /\ fl' = None
                /\ gop' = [gop EXCEPT !.failed = TRUE]
           ELSE /\ fl' = Some([rest |-> SubSeq(f.rest, len + 1, Len(f.rest)),
                               image_payload |-> f.image_payload \o SubSeq(f.rest, 1, len),
                               acked |-> last])
                /\ host_reply' = IF last THEN "RebootImminent" ELSE host_reply
                /\ UNCHANGED gop
    /\ UNCHANGED <<storage, node>>
    /\ UNCHANGED <<svars, mvars, dvars, cvars, xvars, pvars, lvars, qvars>>

\* the satellite's arm for CoreMgmtDropLinkAck: write_image, then slcr::reboot;
\* the panic handler of satman loops for ever
DropLinkAck(write_ok) ==
    /\ fl # None /\ fl[1].acked /\ node = "running"
    /\ LET r == write_image(fl[1].image_payload, write_ok)
       IN  /\ storage' = IF r.result = "written" THEN r.stored ELSE storage
           /\ node' = IF r.result = "written" THEN "rebooted" ELSE "panicked"
           /\ gop' = [gop EXCEPT !.failed = r.result # "written"]
    /\ UNCHANGED <<host_reply, fl>>
    /\ UNCHANGED <<svars, mvars, dvars, cvars, xvars, pvars, lvars, qvars>>

\* config_write: local_coremgmt's, or remote_coremgmt's with the satellite's
\* arm for the last CoreMgmtConfigWriteRequest, which answers
\* CoreMgmtReply { succeeded: write_config().is_ok() }
ConfigWrite(remote, ok, write_ok) ==
    /\ node = "running" /\ fl = None /\ gop.op = "none"
    /\ ~remote => ok
    /\ ~ok => ~write_ok
    /\ host_reply' = IF ok /\ write_ok THEN "Success" ELSE "Error"
    /\ gop' = GOp("config_write", <<>>, ~(ok /\ write_ok))
    /\ UNCHANGED <<storage, node, fl>>
    /\ UNCHANGED <<svars, mvars, dvars, cvars, xvars, pvars, lvars, qvars>>

\* the host's next request
NextRequest ==
    /\ node = "running" /\ fl = None /\ gop.op # "none"
    /\ gop' = GOp("none", <<>>, FALSE)
    /\ host_reply' = "none"
    /\ UNCHANGED <<storage, node, fl>>
    /\ UNCHANGED <<svars, mvars, dvars, cvars, xvars, pvars, lvars, qvars>>

\* drtiosat_cxp.rs: the statics as declared; cxp_grabber STATE is Disconnected
QInit ==
    /\ IDLE = TRUE
    /\ CXP_PACKET = None
    /\ cxp_task = None
    /\ connected = FALSE
    /\ kreq = None
    /\ error_delivered = FALSE
    /\ qev = [step |-> "init", req |-> None, reply |-> None, to_kernel |-> None]

GInit ==
    /\ storage = None /\ node = "running" /\ host_reply = "none" /\ fl = None
    /\ gop = GOp("none", <<>>, FALSE)

----------------------------------------------------------------------------
\* The specifications.

Init == SInit /\ MQuiet /\ DInit /\ CInit /\ XInit /\ PInit /\ LInit /\ GInit /\ QInit

Next ==
    \/ AuxNone
    \/ \E id \in KernelIds, status \in StatusSet : SubkernelAddDataRequest(id, status)
    \/ \E source \in Sources, id \in KernelIds, do_run \in BOOLEAN, dma_running \in BOOLEAN,
          reply1 \in LoadReplies, reply2 \in LoadReplies :
            SubkernelLoadRunRequest(source, id, do_run, dma_running, reply1, reply2)
    \/ SubkernelLoadRunReply
    \/ \E id \in PeerIds, with_exception \in BOOLEAN :
            SubkernelFinishedPacket(id, with_exception)
    \/ \E last \in BOOLEAN : SubkernelException(last)
    \/ \E id \in PeerIds, status \in StatusSet, length \in 0..1 :
            SubkernelMessage(RemoteDest, id, status, length)
    \/ SubkernelMessageAck
    \/ \E succeeded \in BOOLEAN : DmaAddTraceReply(succeeded)
    \/ \E succeeded \in BOOLEAN : DmaPlaybackReply(succeeded)
    \/ \E all_done \in BOOLEAN : DmaPlaybackStatus(all_done)
    \/ \E source \in Sources, playback_res \in PlaybackResults :
            DmaPlaybackRequest(source, playback_res)
    \/ \E pass_res \in PassResults, dma_res \in DmaResults, targets \in 1..MaxUploads :
            ProcessKernRequests(pass_res, dma_res, targets)
    \/ \E d \in TickSteps : Tick(d)
    \/ \E msg \in KernelMessages : KernelSend(msg)

Spec == Init /\ [][Next]_vars

InitMaster == SInit /\ MInit /\ DInit /\ CInit /\ XInit /\ PInit /\ LInit /\ GInit /\ QInit

NextMaster ==
    \/ \E t \in Tasks, op \in MOps, l \in Links : Call(t, op, l)
    \/ \E t \in Tasks : Lock(t)
    \/ \E t \in Tasks, packet \in Packets : RecvPacket(t, packet)
    \/ \E t \in Tasks, err \in RecvErrors : RecvError(t, err)
    \/ \E l \in Links : LinkChange(l)

SpecMaster == InitMaster /\ [][NextMaster]_vars

NextDispatch ==
    \/ \E type \in ForwardTypes \cup {"DestinationStatusRequest"}, destination \in DDests,
          fwd_res \in ForwardResults :
            ProcessAuxPacket(type, destination, fwd_res)
    \/ \E destination \in DDests, hops \in [Ranks -> Hops] :
            RoutingSetPath(destination, hops)
    \/ \E new_rank \in Ranks : RoutingSetRank(new_rank)

SpecDispatch == Init /\ [][NextDispatch]_vars

NextChunks ==
    \/ \E kind \in Kinds, n \in 1..MaxLen : StartTransfer(kind, n)
    \/ \E delivered \in BOOLEAN, replied \in BOOLEAN : SendChunk(delivered, replied)

SpecChunks == Init /\ [][NextChunks]_vars

NextCxp ==
    \/ \E found \in BOOLEAN : Discover(found)
    \/ SetupBegin
    \/ \E op \in CtrlOps, fixed \in BOOLEAN : CtrlRequest(op, fixed)
    \/ \E pkt \in RxPackets(TAG) : Receive(pkt)
    \/ \E err \in RxErrors : ReceiveError(err)
    \/ \E ok, v2 \in BOOLEAN : SetupStep(ok, v2)
    \/ SetupDone
    \/ Disconnect

\* receive_ctrl_packet_timeout returns, with a packet or with an error
WaitEnds ==
    \/ \E pkt \in RxPackets(TAG) : Receive(pkt)
    \/ \E err \in RxErrors : ReceiveError(err)

SpecCxp == Init /\ [][NextCxp]_vars

\* ... with the loop of receive_ctrl_packet_timeout, which ends when a packet is
\* there or the time is up, taken as running to its end
SpecCxpLive == Init /\ [][NextCxp]_vars /\ WF_vars(WaitEnds)

NextCodec ==
    \/ \E f \in RxFrames : Transmit(f)
    \/ Damage
    \/ Decode
    \/ Release

SpecCodec == Init /\ [][NextCodec]_vars

\* link_task with satellites that report no asynchronous error
NextLink ==
    \/ \E l \in Links : LinkChange(l)
    \/ LinkVisit
    \/ \E reply \in {"EchoReply", "Err"} : PingRemote(reply)
    \/ \E failed \in SUBSET InitSteps : LinkInit(failed)
    \/ \E reply \in {"DestinationDownReply", "DestinationOkReply", "Err", "none"} :
            SurveyDest(reply)

SpecLink == Init /\ [][NextLink]_vars

\* link_task with satellites that answer the first ping and take the three
\* steps after it; the core's own errors and the host's reads in between
NextSurvey ==
    \/ \E l \in Links : LinkChange(l)
    \/ LinkVisit
    \/ PingRemote("EchoReply")
    \/ LinkInit({})
    \/ \E reply \in StatusReplies \cup {"none"} : SurveyDest(reply)
    \/ \E errors \in 1..7 : ReportAsync(errors)
    \/ HostRead

SpecSurvey == Init /\ [][NextSurvey]_vars

NextMgmt ==
    \/ \E image \in Images : LocalImageWrite(image)
    \/ \E image \in Images, ok \in BOOLEAN : FlashRequest(image, ok)
    \/ \E ok \in BOOLEAN : FlashAddData(ok)
    \/ \E write_ok \in BOOLEAN : DropLinkAck(write_ok)
    \/ \E remote, ok, write_ok \in BOOLEAN : ConfigWrite(remote, ok, write_ok)
    \/ NextRequest

SpecMgmt == Init /\ [][NextMgmt]_vars

----------------------------------------------------------------------------
\* CXP register requests on a satellite (specification SpecCxpSat): the
\* master repeats a kernel's request until the satellite answers with
\* something other than CXPWaitReply; the satellite runs the camera access in
\* a task and keeps its result in one slot.

CxpAddrs == {0, 4}
CxpLengths == {4, 8}

\* kernel::Message::CXPReadRequest and CXPWrite32Request
CxpRequests ==
    [kind : {"read"}, addr : CxpAddrs, length : CxpLengths]
        \cup [kind : {"write32"}, addr : CxpAddrs, val : {1}]

\* outcomes of one aux_transact: answered, request lost, reply lost
AuxOutcomes == {"ok", "no_request", "no_reply"}

NotConnected == "Camera is not connected"
TaskError == "control packet error"

\* the packets of the satellite; "of" is the request the packet was made for
CXPWaitReply == [type |-> "CXPWaitReply"]
CXPError(message, req) == [type |-> "CXPError", message |-> message, of |-> req]
CXPReadReply(req) ==
    [type |-> "CXPReadReply", length |-> req.length, data |-> req.addr, of |-> req]
CXPWrite32Reply(req) == [type |-> "CXPWrite32Reply", of |-> req]

\* process_read_request: [reply, IDLE, CXP_PACKET, spawn]
process_read_request(req, conn, idle, packet) ==
    IF ~conn
    THEN [reply |-> CXPError(NotConnected, req), IDLE |-> idle,
          CXP_PACKET |-> packet, spawn |-> FALSE]
    ELSE IF packet # None
    THEN [reply |-> packet[1], IDLE |-> idle, CXP_PACKET |-> None, spawn |-> FALSE]
    ELSE [reply |-> CXPWaitReply, IDLE |-> FALSE, CXP_PACKET |-> None,
          spawn |-> idle]

\* process_write32_request: [reply, IDLE, CXP_PACKET, spawn]
process_write32_request(req, conn, idle, packet) ==
    IF ~conn
    THEN [reply |-> CXPError(NotConnected, req), IDLE |-> idle,
          CXP_PACKET |-> packet, spawn |-> FALSE]
    ELSE IF packet # None
    THEN [reply |-> packet[1], IDLE |-> idle, CXP_PACKET |-> None, spawn |-> FALSE]
    ELSE [reply |-> CXPWaitReply, IDLE |-> FALSE, CXP_PACKET |-> None,
          spawn |-> idle]

\* the end of the task spawned by process_read_request (ok: every
\* async_read_bytes succeeded) or by process_write32_request
CxpTaskDone(ok) ==
    /\ cxp_task # None
    /\ LET req == cxp_task[1] IN
        /\ CXP_PACKET' = Some(IF ~ok THEN CXPError(TaskError, req)
                              ELSE IF req.kind = "read" THEN CXPReadReply(req)
                              ELSE CXPWrite32Reply(req))
        /\ IDLE' = IF req.kind = "read" /\ ~ok THEN IDLE ELSE TRUE
        /\ qev' = [step |-> "task", req |-> req, reply |-> None, to_kernel |-> None]
    /\ cxp_task' = None
    /\ UNCHANGED <<connected, kreq, error_delivered>>
    /\ UNCHANGED <<svars, mvars, dvars, cvars, xvars, pvars, lvars, gvars>>

\* the message handle_run_kernel sends to the kernel for a result of
\* aux_transact (None: Err) that is not CXPWaitReply
cxp_kernel_reply(req, result) ==
    IF result = None THEN [type |-> "CXPError", message |-> "drtio aux error"]
    ELSE IF result[1].type = "CXPError"
    THEN [type |-> "CXPError", message |-> result[1].message]
    ELSE IF req.kind = "read" /\ result[1].type = "CXPReadReply"
    THEN [type |-> "CXPReadReply", length |-> result[1].length,
          data |-> result[1].data]
    ELSE IF req.kind = "write32" /\ result[1].type = "CXPWrite32Reply"
    THEN [type |-> "CXPWrite32Reply"]
    ELSE [type |-> "CXPError", message |-> "recevied unexpected drtio aux reply"]

\* the kernel sends a CXP request to handle_run_kernel
KernelCxpRequest(req) ==
    /\ kreq = None
    /\ kreq' = Some(req)
    /\ qev' = [step |-> "request", req |-> req, reply |-> None, to_kernel |-> None]
    /\ UNCHANGED <<IDLE, CXP_PACKET, cxp_task, connected, error_delivered>>
    /\ UNCHANGED <<svars, mvars, dvars, cvars, xvars, pvars, lvars, gvars>>

\* one turn of the loop of handle_run_kernel: aux_transact of the request,
\* handled on the satellite by process_aux_packet
CxpTransact(outcome) ==
    /\ kreq # None
    /\ LET req == kreq[1]
           seen == outcome # "no_request"
           r == IF req.kind = "read"
                THEN process_read_request(req, connected, IDLE, CXP_PACKET)
                ELSE process_write32_request(req, connected, IDLE, CXP_PACKET)
           result == IF outcome = "ok" THEN Some(r.reply) ELSE None
           again == result # None /\ r.reply.type = "CXPWaitReply"
       IN
        /\ IDLE' = IF seen THEN r.IDLE ELSE IDLE
        /\ CXP_PACKET' = IF seen THEN r.CXP_PACKET ELSE CXP_PACKET
        /\ cxp_task' = IF seen /\ r.spawn THEN Some(req) ELSE cxp_task
        /\ kreq' = IF again THEN kreq ELSE None
        /\ error_delivered' =
            (error_delivered
                \/ (result # None /\ r.reply.type = "CXPError"
                        /\ r.reply.message = TaskError))
        /\ qev' = [step |-> "transact", req |-> req,
                   reply |-> IF seen THEN Some(r.reply) ELSE None,
                   to_kernel |-> IF again THEN None
                                 ELSE Some(cxp_kernel_reply(req, result))]
    /\ UNCHANGED connected
    /\ UNCHANGED <<svars, mvars, dvars, cvars, xvars, pvars, lvars, gvars>>

\* the camera connection of cxp_grabber comes up or goes down
CameraChange ==
    /\ connected' = ~connected
    /\ qev' = [step |-> "camera", req |-> None, reply |-> None, to_kernel |-> None]
    /\ UNCHANGED <<IDLE, CXP_PACKET, cxp_task, kreq, error_delivered>>
    /\ UNCHANGED <<svars, mvars, dvars, cvars, xvars, pvars, lvars, gvars>>

NextCxpSat ==
    \/ \E req \in CxpRequests : KernelCxpRequest(req)
    \/ \E outcome \in AuxOutcomes : CxpTransact(outcome)
    \/ \E ok \in BOOLEAN : CxpTaskDone(ok)
    \/ CameraChange

SpecCxpSat == Init /\ [][NextCxpSat]_vars

----------------------------------------------------------------------------

\* Properties of the subkernel session manager (specification Spec).

\* a step of process_kern_requests
PollStep == svc_pc = "kern" /\ svc_pc' = "aux"

AwaitStates == {"MsgAwait", "SubkernelAwaitFinish", "DmaAwait", "DmaPendingAwait"}

\* C1: a session has at most one outgoing interkernel message in flight.  A
\* running session that is not in MsgSending has no outgoing message: none
\* stored, none partly sent, no slice unacknowledged.  The poll that accepts a
\* SubkernelMsgSend starts from such a state, routes exactly one slice and leaves
\* the session in MsgSending; and a poll that finds the session in MsgSending
\* with slices still to send or a slice unacknowledged takes no request from
\* the kernel and leaves it in MsgSending.
C1_OneMessageInFlight ==
    /\ [](running(session) /\ session.kernel_state.type # "MsgSending"
            => /\ session.out_message = None
               /\ session.out_state = "NoMessage"
               /\ unacked = 0)
    /\ [][PollStep /\ ev'.msg = "SubkernelMsgSend"
            => /\ session.out_message = None /\ unacked = 0
               /\ session'.kernel_state.type = "MsgSending"
               /\ unacked' = 1]_vars
    /\ [][PollStep /\ session.kernel_state.type = "MsgSending"
                   /\ (session.out_message # None \/ unacked > 0)
            => /\ kern_rx' = kern_rx
               /\ session'.kernel_state.type = "MsgSending"
               /\ "SubkernelMsgSent" \notin {to_kernel'[i] : i \in 1..Len(to_kernel')}]_vars

\* C1 witness: the last slice of a message of several slices has just been
\* routed, in answer to the acknowledgement of the slice before; the session is
\* in MsgSending and the slice is not acknowledged yet.
C1_Witness ==
    /\ session.kernel_state.type = "MsgSending"
    /\ session.out_state = "MessageSent"
    /\ unacked = 1
    /\ ev.op = "SubkernelMessageAck"
    /\ routed # <<>>
    /\ routed[1].type = "SubkernelMessage"
    /\ routed[1].status = "Last"

\* C2: a poll that finds the session in MsgAwait, SubkernelAwaitFinish, DmaAwait
\* or DmaPendingAwait with its deadline passed tells the kernel of the timeout
\* and leaves the session Running, whatever packets did or did not arrive.
C2_TimeoutOnNextPoll ==
    [][PollStep /\ session.kernel_state.type \in AwaitStates
                /\ session.kernel_state.max_time # None
                /\ now > session.kernel_state.max_time[1]
         => /\ to_kernel' = <<IF session.kernel_state.type \in {"DmaAwait", "DmaPendingAwait"}
                              THEN "DmaAwaitRemoteReply_timeout"
                              ELSE "SubkernelError_Timeout">>
            /\ session'.kernel_state = Running]_vars

\* C2 witness: the timeout of a wait for a DMA playback whose traces were still
\* being uploaded has just been reported.
C2_Witness ==
    /\ timed_out = Some(<<"DmaPendingAwait", 0>>)
    /\ to_kernel = <<"DmaAwaitRemoteReply_timeout">>
    /\ session.kernel_state = Running

\* C3: a poll in which the kernel CPU reports an exception (as a request, or
\* while a received message is passed to it) leaves the session Absent; and a
\* session that is not running starts running only in the handling of a
\* SubkernelLoadRunRequest.
C3_ExceptionEndsSession ==
    /\ [][PollStep /\ (ev'.msg = "KernelException" \/ ev'.ext = "KernelException")
            => session'.kernel_state = Absent /\ ~running(session')]_vars
    /\ [][~running(session) /\ running(session')
            => ev'.op = "SubkernelLoadRunRequest"]_vars

\* C3 witness: the kernel's exception has just ended the session.
C3_Witness ==
    /\ ev.msg = "KernelException"
    /\ session.kernel_state = Absent
    /\ session.last_exception = "kernel"

\* the SubkernelFinished packets among the packets routed
finished_packets(rt) == {i \in 1..Len(rt) : rt[i].type = "SubkernelFinished"}

\* C4: the poll in which a session ends by KernelFinished or by a kernel exception
\* records one notice for it, with the session's id and the source of its run,
\* with_exception false for a finish and true for an exception; the next poll
\* routes exactly one SubkernelFinished packet, carrying the notice, to that
\* source; no other step routes a SubkernelFinished packet or touches the notice.
C4_OneFinishedPacket ==
    /\ [][PollStep /\ (ev'.msg \in {"KernelFinished", "KernelException"}
                       \/ ev'.ext = "KernelException")
            => last_finished' =
                 Some([id |-> session.id, source |-> session.source,
                       with_exception |-> ev'.msg # "KernelFinished",
                       exception_source |->
                           IF ev'.msg = "KernelFinished" THEN 0 ELSE self_destination])]_vars
    /\ [][PollStep /\ last_finished # None
            => /\ Cardinality(finished_packets(routed')) = 1
               /\ \A i \in finished_packets(routed') :
                     /\ routed'[i].destination = last_finished[1].source
                     /\ routed'[i].id = last_finished[1].id
                     /\ routed'[i].with_exception = last_finished[1].with_exception
               /\ last_finished' # None => ev'.res \in {"Finished", "KernelException", "Err"}
                                           \/ ev'.ext \in {"KernelException", "Err"}]_vars
    /\ [][PollStep /\ last_finished = None => finished_packets(routed') = {}]_vars
    /\ [][~PollStep => last_finished' = last_finished /\ finished_packets(routed') = {}]_vars

\* C4 witness: the notice of a session that ended by an exception, run for a
\* destination other than the master, has just been routed to that destination.
C4_Witness ==
    /\ routed # <<>>
    /\ routed[1].type = "SubkernelFinished"
    /\ routed[1].with_exception
    /\ routed[1].destination = RemoteDest
    /\ session.last_exception = "kernel"

\* C5, as claimed: a SubkernelFinished packet for the subkernel whose wait has
\* timed out, arriving when the session waits for nothing, is discarded.
C5_LateFinishDiscarded ==
    [][(/\ ev'.op = "SubkernelFinished"
        /\ session.kernel_state = Running
        /\ timed_out = Some(<<"SubkernelAwaitFinish", ev'.id>>))
       => session'.subkernels_finished = session.subkernels_finished]_vars

----------------------------------------------------------------------------
\* Properties of the master's aux transactions (specification SpecMaster).

\* the tasks that hold a transaction open on link l
Transacting(l) ==
    {t \in Tasks : task_pc[t] = "transact" /\ task_link[t] = l}

\* C6: at most one aux request is outstanding on a link: no two tasks are inside
\* a transaction on the same link, and a task sends its request on a link only
\* when no other task has a transaction open on it.
C6_SingleFlightPerLink ==
    /\ [](\A l \in Links : Cardinality(Transacting(l)) <= 1)
    /\ [][\A t \in Tasks :
            task_pc[t] = "lock" /\ task_pc'[t] = "transact"
              => Transacting(task_link[t]) = {} /\ Transacting(task_link[t])' = {t}]_vars

\* C6 witness: a task waits for the reply to its request while another task,
\* which called aux_transact on the same link, has not sent its request.
C6_Witness ==
    \E t \in Tasks, u \in Tasks :
        /\ task_pc[t] = "transact" /\ task_op[t] = "aux_transact"
        /\ task_pc[u] = "lock" /\ task_op[u] = "aux_transact"
        /\ task_link[u] = task_link[t]

\* C7, as claimed: a task that called aux_transact and has not sent its request
\* is held back only by a transaction on its own link.
C7_LinksIndependent ==
    \A t \in Tasks, u \in Tasks :
        (/\ task_pc[t] = "lock" /\ task_op[t] = "aux_transact"
         /\ task_pc[u] = "transact" /\ task_op[u] = "aux_transact"
         /\ AUX_MUTEX = Some(u))
        => task_link[u] = task_link[t]

\* the destination of the master in the routing table
MasterDestination == CHOOSE d \in Destinations : ROUTING_TABLE[d] = 0

\* an asynchronous packet, or a routable packet for another destination
AsyncOrForeign(packet) ==
    \/ packet.type \in AsyncTypes
    \/ packet.type \in RoutableTypes /\ packet.destination # MasterDestination

\* C8: a packet received inside aux_transact that is asynchronous, or routable
\* and addressed to another destination, is handled, re-routed or dropped, is
\* not the result, and leaves the transaction open with the lock held; any
\* other packet is the result; a receive error is the result and ends the
\* transaction.
C8_AsyncNeverReturned ==
    mev.op \in {"recv", "recv_error"} /\ task_op[mev.task] = "aux_transact"
      => IF mev.op = "recv_error"
         THEN mev.result # None /\ mev.result[1][1] = "Err" /\ task_pc[mev.task] = "idle"
         ELSE IF AsyncOrForeign(mev.packet[1])
         THEN /\ mev.result = None
              /\ mev.handled \in {"local", "routed", "dropped"}
              /\ task_pc[mev.task] = "transact"
              /\ AUX_MUTEX = Some(mev.task)
         ELSE /\ mev.result = Some(<<"Ok", mev.packet[1]>>)
              /\ task_pc[mev.task] = "idle"

\* C8 witness: a SubkernelLoadRunReply for another destination arrived inside
\* aux_transact and was re-routed; the transaction goes on.
C8_Witness ==
    /\ mev.op = "recv" /\ task_op[mev.task] = "aux_transact"
    /\ mev.packet[1].type = "SubkernelLoadRunReply"
    /\ mev.handled = "routed"
    /\ task_pc[mev.task] = "transact"

\* a packet that process_async_packets hands to route_packet
Rerouted(packet) ==
    packet.type \in AsyncTypes \cup RoutableTypes /\ packet.destination # MasterDestination

\* C9: a received packet that is to be re-routed and whose next hop is the link
\* it arrived on is dropped: nothing is sent; and no re-routed packet is ever
\* sent on the link it arrived on.
C9_NoBounce ==
    mev.op = "recv" /\ task_op[mev.task] # "sync_tsc" /\ Rerouted(mev.packet[1])
      => /\ ROUTING_TABLE[mev.packet[1].destination] - 1 = mev.link
            => sent = <<>> /\ mev.handled = "dropped"
         /\ \A i \in 1..Len(sent) : sent[i][1] # mev.link

\* C9 witness: a packet for another destination arrived on the link that leads
\* to that destination and was dropped.
C9_Witness ==
    /\ mev.op = "recv" /\ mev.handled = "dropped"
    /\ ROUTING_TABLE[mev.packet[1].destination] = mev.link + 1
    /\ sent = <<>>

----------------------------------------------------------------------------
\* Properties of the satellite's aux dispatcher (specification SpecDispatch).

DestinationAddressed == ForwardTypes \cup {"DestinationStatusRequest"}

\* the hop of the packet last dispatched, at this node's rank
DevHop == routing_table[dev.destination][rank]

\* forwarded to the repeater of the hop, or refused with RoutingError when there
\* is no such repeater; nothing done locally, nothing answered
ForwardedOrRefused ==
    /\ ~dev.local
    /\ dev.reply = "none"
    /\ IF DevHop <= NumRepeaters
       THEN dev.act \in {"aux_forward", "aux_send"}
       ELSE dev.act = "none" /\ dev.result = "RoutingError"

\* C10, as claimed: every packet that carries a destination is forwarded or
\* refused as above when its hop is not 0, and handled locally when it is 0.
C10_AsClaimed ==
    dev.type \in DestinationAddressed
      => IF DevHop # 0 THEN ForwardedOrRefused ELSE dev.local

\* C10, amended: so it is for every packet type but DestinationStatusRequest.  A
\* DestinationStatusRequest whose hop is not 0 is not handled locally either; it
\* is forwarded when the repeater exists, and answered with DestinationDownReply
\* when there is no such repeater (without a routing error) or, possibly, when
\* it was forwarded (the forwarding failed); with hop 0 it is answered with the
\* status.  An answer of the local handling is sent only with hop 0.
C10_ForwardOrLocal ==
    /\ dev.type \in ForwardTypes
         => IF DevHop # 0 THEN ForwardedOrRefused ELSE dev.local
    /\ dev.type = "DestinationStatusRequest"
         => IF DevHop = 0 THEN dev.local /\ dev.reply = "DestinationStatus"
            ELSE /\ ~dev.local
                 /\ dev.result = "Ok"
                 /\ IF DevHop <= NumRepeaters
                    THEN dev.act = "aux_forward"
                         /\ dev.reply \in {"none", "DestinationDownReply"}
                    ELSE dev.act = "none" /\ dev.reply = "DestinationDownReply"
    /\ dev.type \in DestinationAddressed /\ dev.reply \in {"reply", "DestinationStatus"}
         => DevHop = 0 /\ dev.local

\* C10 witness: a SubkernelLoadRunRequest for a destination behind the repeater
\* was forwarded, by a satellite whose rank was set to 2.
C10_Witness ==
    /\ dev.type = "SubkernelLoadRunRequest"
    /\ dev.act = "aux_forward"
    /\ rank = 2
    /\ DevHop \in 1..NumRepeaters

----------------------------------------------------------------------------
\* Further properties of the satellite (specification Spec).

\* C11: no aux packet, in any state of the session, makes the satellite panic.
C11_NeverPanics == ~panicked

\* C12: a DmaPlaybackRequest handled while the session is running (in any state
\* other than Absent or Loaded) starts no playback and is answered with
\* DmaPlaybackReply{succeeded: false}, sent to the source of the request.
C12_PlaybackRefusedWhileRunning ==
    [][ev'.op = "DmaPlaybackRequest" /\ running(session)
         => /\ ev'.res = "refused"
            /\ Len(routed') = 1
            /\ routed'[1].type = "DmaPlaybackReply"
            /\ ~routed'[1].succeeded]_vars

\* C12 witness: a playback was just refused while the session waited for a
\* message.
C12_Witness ==
    /\ ev.op = "DmaPlaybackRequest"
    /\ ev.res = "refused"
    /\ session.kernel_state.type = "MsgAwait"
    /\ routed = <<[type |-> "DmaPlaybackReply", destination |-> RemoteDest,
                   succeeded |-> FALSE]>>

\* C14: a load of an id whose binary is not completely received (the chunk
\* stored last for the id was not marked last, or no chunk was stored) is
\* answered with failure, and leaves the session, the kernel CPU and what it
\* has sent as they were; a load-run request is answered with success only
\* for a completely received binary.
C14_LoadNeedsCompleteBinary ==
    [][ev'.op = "SubkernelLoadRunRequest"
       => /\ (kernels[ev'.id] # "complete"
               => /\ Len(routed') = 1
                  /\ routed'[1].type = "SubkernelLoadRunReply"
                  /\ ~routed'[1].succeeded
                  /\ session' = session
                  /\ kern_rx' = kern_rx
                  /\ kcpu' = kcpu
                  /\ to_kernel' = <<>>)
          /\ (routed'[1].succeeded => kernels[ev'.id] = "complete")]_vars

\* a load was refused while a session runs and a new binary is being received
C14_Witness ==
    /\ ev.op = "SubkernelLoadRunRequest"
    /\ kernels[ev.id] = "partial"
    /\ session.kernel_state = Running
    /\ session.id = ev.id
    /\ routed = <<[type |-> "SubkernelLoadRunReply", destination |-> RemoteDest,
                   succeeded |-> FALSE]>>

\* C13: for the trace upload started last, the session is signalled at most
\* once whatever the number of replies; it has been signalled with success
\* only if as many destinations acknowledged as were targeted, with failure
\* only if a destination reported failure, and it has not been signalled
\* exactly as long as no failure was reported and an acknowledgement is missing.
C13_OneSignalPerUpload ==
    LET l == upload_log
    IN  /\ Len(l.signals) <= 1
        /\ l.signals = <<TRUE>> => l.acks >= l.targets
        /\ l.signals = <<FALSE>> => l.nacks >= 1
        /\ l.targets = 0 => l.signals = <<>>
        /\ l.targets > 0 => (l.signals = <<>> <=> l.nacks = 0 /\ l.acks < l.targets)

\* of three destinations one has acknowledged and one has failed: one signal
C13_Witness ==
    /\ ev.op = "DmaAddTraceReply"
    /\ upload_log = [targets |-> 3, acks |-> 1, nacks |-> 1, signals |-> <<FALSE>>]
    /\ uploads = 0
    /\ session.last_exception = "runtime"

----------------------------------------------------------------------------
\* Properties of chunked transfers (specification SpecChunks).

\* C15: whatever the kind of transfer, a payload the receiver completes
\* consists of the chunks from the latest chunk marked first through the last
\* chunk, and of nothing accumulated before.
C15_FirstDiscardsUnfinished ==
    cev.completed # <<>> => cev.completed[1] = fresh[cev.kind]

\* C16: when partition_data has sent a subkernel binary and every chunk was
\* answered, the library the satellite holds is complete and its bytes are the
\* payload.
C16_ReassemblyExact ==
    (cev.op = "SendChunk" /\ cev.kind = "kernel" /\ cev.finished)
        => library = Some(KernelLibrary(cev.data, TRUE))

\* a binary of several chunks whose last chunk is short was sent, after an
\* earlier transfer
C16_Witness ==
    /\ cev.op = "SendChunk" /\ cev.kind = "kernel" /\ cev.finished
    /\ Len(cev.data) > MASTER_PAYLOAD_MAX_SIZE
    /\ Len(cev.data) % MASTER_PAYLOAD_MAX_SIZE # 0
    /\ transfers = MaxTransfers
    /\ library = Some(KernelLibrary(cev.data, TRUE))

----------------------------------------------------------------------------
\* Properties of the CoaXPress control-packet engine (specification SpecCxp).

\* C17: a write or read sent with a tag that returns Ok leaves TAG one higher,
\* 0 after 255; one that returns an error leaves TAG as it was.
C17_TagIncrements ==
    [][(txn # None /\ txn' = None)
       => /\ ((txn[1].with_tag /\ xev'.result = "Ok") => TAG' = (TAG + 1) % 256)
          /\ (xev'.result # "Ok" => TAG' = TAG)]_vars

\* a tagged transaction sent with tag 255 was acknowledged
C17_Witness ==
    /\ xev.step = "finish"
    /\ xev.with_tag
    /\ xev.result = "Ok"
    /\ xev.tag = Some(255)
    /\ TAG = 0

\* C18: a transaction sent with a tag that receives a reply of a kind it
\* awaits (CtrlDelay; CtrlAck for a write, CtrlReply for a read) whose tag is
\* not the tag sent fails with TagMismatch.
C18_TagMustMatch ==
    [][(/\ txn # None
        /\ txn[1].with_tag
        /\ xev'.step \in {"delay", "finish"}
        /\ xev'.pkt.type \in {"CtrlDelay", IF txn[1].op = "write" THEN "CtrlAck"
                                                                 ELSE "CtrlReply"}
        /\ xev'.pkt.tag # txn[1].tag)
       => xev'.result = "TagMismatch"]_vars

\* C19: while camera_setup has not sent a control packet yet, TAG is 0.
C19_TagResetAtSetup ==
    (setup # None /\ ~epoch_sent) => TAG = 0

\* camera_setup began with a TAG left at another value by the epoch before
C19_Witness ==
    /\ xev.step = "setup"
    /\ xev.tag \notin {None, Some(0)}
    /\ setup # None
    /\ ~epoch_sent
    /\ TAG = 0

\* C20: a CtrlDelay that passes the tag check leaves the transaction waiting,
\* now for pkt.time ms, with nothing else changed; a transaction that was
\* delayed returns Ok exactly if the reply that ends it is the reply awaited
\* and passes the tag check, and its tag is then incremented as usual.
C20_DelayIsRewait ==
    [][/\ (/\ txn # None
           /\ xev'.step \in {"delay", "finish"}
           /\ xev'.pkt.type = "CtrlDelay"
           /\ xev'.pkt.tag \in {None, Some(TAG)})
          => /\ xev'.step = "delay"
             /\ txn' = Some([txn[1] EXCEPT !.timeout = xev'.pkt.time,
                                           !.delayed = TRUE])
             /\ UNCHANGED <<TAG, CXP_STATE, WITH_TAG, setup>>
       /\ (txn # None /\ txn[1].delayed /\ xev'.step = "finish")
          => LET awaited == \/ txn[1].op = "write" /\ xev'.pkt.type = "CtrlAck"
                            \/ /\ txn[1].op = "read"
                               /\ xev'.pkt.type = "CtrlReply"
                               /\ xev'.pkt.length = 4
                 accepted == awaited /\ xev'.pkt.tag \in {None, Some(TAG)}
             IN  /\ xev'.result = "Ok" <=> accepted
                 /\ (accepted /\ txn[1].with_tag) => TAG' = (TAG + 1) % 256]_vars

\* a tagged read that the camera delayed has returned Ok
C20_Witness ==
    /\ xev.step = "finish"
    /\ xev.op = "read"
    /\ xev.delayed
    /\ xev.with_tag
    /\ xev.pkt.type = "CtrlReply"
    /\ xev.result = "Ok"

\* C21: the camera link state becomes Connected only after discovery, the
\* topology check, the disabling of excess channels, the version negotiation,
\* the packet-size and line-rate setup and the stability test have all
\* succeeded, in that order, for the current connection; a step that fails
\* never leads to Connected.
C21_ConnectedAfterAllSteps ==
    [][/\ CXP_STATE' = "Connected" =>
            SelectSeq(epoch', LAMBDA st : st # "set_host_connection_id")
                = <<"discover_camera", "check_master_channel",
                    "disable_excess_channels", "negotiate_cxp_version",
                    "negotiate_pak_max_size", "set_operation_linerate",
                    "test_channel_stability">>
       /\ (setup # None /\ xev'.step \in {"finish", "step"} /\ xev'.result # "Ok")
            => CXP_STATE' # "Connected"]_vars

C21_Witness ==
    /\ CXP_STATE = "Connected" /\ xev.step = "connected"
    /\ Len(epoch) = 8

C23_MajorityRestores ==
    (/\ rxout # None /\ rxsent[1].kind = "byte"
     /\ Cardinality({i \in 1..4 : rxbuf[i] # rxsent[1].data[1]}) <= 1)
        => rxout[1].data = rxsent[1].data

C23_Witness ==
    /\ rxout # None /\ rxsent[1].kind = "byte"
    /\ rxsent[1].data = <<255>> /\ rxbuf = <<255, 255, 255, 127>>
    /\ rxout[1].data = <<255>>

\* C24: a received control packet whose trailing CRC32 differs from the
\* checksum of its body, byte 4 through the padding, is rejected with
\* CorruptedPacket and returned neither as CtrlAck nor as CtrlReply nor as
\* CtrlDelay.
C24_BadCrcRejected ==
    (/\ rxout # None /\ rxsent[1].kind = "ctrl"
     /\ SubSeq(rxbuf, Len(rxbuf) - 3, Len(rxbuf))
            # get_cxp_crc(SubSeq(rxbuf, 5, Len(rxbuf) - 4)))
        => rxout[1].result = "CorruptedPacket"

\* C25: while a link is down and its receiver has locked, the supervisor sends
\* at most 100 EchoRequests; the link becomes up exactly when an EchoReply
\* answers one of them with the lock still there, and otherwise stays down
\* with link_task going on to its next pass.
C25_PingBounded ==
    [][/\ lpc'.at \in {"ping", "init"} => lpc'.count <= 100
       /\ \A l \in Links :
            (~up_links[l] /\ up_links'[l]) =>
                /\ lpc.at = "ping" /\ lpc.i = l /\ link_rx_up[l]
                /\ lev'.reply = "EchoReply"
       /\ (lpc.at = "ping" /\ lpc' # lpc /\ link_rx_up[lpc.i] /\ lpc.count < 100
            /\ lev'.reply = "EchoReply") => up_links'[lpc.i]
       /\ (lpc.at = "ping" /\ lpc'.at # "ping" /\ lev'.reply # "EchoReply") =>
                /\ ~up_links'[lpc.i]
                /\ lpc'.at \in {"links", "survey"}]_vars

C25_Witness ==
    /\ lev.step = "ping_ok" /\ lpc.at = "init" /\ lpc.count = 100
    /\ up_links[lpc.i]

\* C26: when the TSC synchronisation, the push of the routing table or the
\* rank assignment fails after a ping, the link stays up, and link_task's next
\* visit of the link performs the steps that failed.
C26_FailedStepRetried ==
    [][\A l \in Links :
        /\ (lpc.at = "init" /\ lpc.i = l /\ lpc' # lpc) => up_links'[l]
        /\ (lpc.at = "links" /\ lpc.i = l /\ lpc' # lpc /\ up_links[l]
             /\ link_rx_up[l] /\ degraded[l] # {})
                => degraded[l] \subseteq lev'.performed]_vars

\* C27: every collision, busy or sequence error a destination-status reply
\* reports sets its bit in the mask of asynchronous errors, and a bit that is
\* set stays set until the host reads the mask.
C27_ErrorBitsKept ==
    [][/\ (lpc.at = "survey" /\ lpc' # lpc /\ async_error_of(lev'.reply) # 0)
            => BitAnd(SEEN_ASYNC_ERRORS', async_error_of(lev'.reply)) # 0
       /\ \A b \in {1, 2, 4} :
            (BitAnd(SEEN_ASYNC_ERRORS, b) # 0 /\ lev'.step # "host")
                => BitAnd(SEEN_ASYNC_ERRORS', b) # 0]_vars

\* C28: a boot image is written to storage only if its trailing CRC32 is the
\* checksum of the bytes before it, and the node reboots only after the
\* image was written; on a mismatch nothing is written and the node does not
\* reboot.
C28_FlashNeedsCrc ==
    /\ storage # None =>
            /\ gop.image \in GoodImages
            /\ storage[1] = SubSeq(gop.image, 1, Len(gop.image) - 4)
    /\ node = "rebooted" => storage # None
    /\ (gop.op = "image_write" /\ gop.image \notin GoodImages) =>
            (storage = None /\ node # "rebooted")

C28_Witness ==
    /\ node = "rebooted" /\ fl # None
    /\ storage = Some(<<49, 50, 51, 52, 53, 54, 55, 56, 57>>)

\* C29: when an image write, a configuration write or a subkernel load fails
\* on the node it is addressed to, the requester is sent a failure reply and
\* never a reply that tells of success.
C29_FailureIsReported ==
    (gop.failed /\ (fl = None \/ node # "running")) => host_reply = "Error"

\* Every aux step that finds the session in MsgAwait with a deadline finds the
\* deadline not yet passed: a message queued while the session waits has
\* arrived before the deadline.
MsgAwaitInTime ==
    (svc_pc = "aux" /\ session.kernel_state.type = "MsgAwait"
                    /\ session.kernel_state.max_time # None)
        => now <= session.kernel_state.max_time[1]

\* C30: a poll that finds the session in MsgAwait with a deadline and a
\* message of the awaited id in the queue, which arrived before the deadline,
\* answers the kernel with the message and not with a timeout; and a poll
\* tells the kernel of a timeout of MsgAwait only if the deadline has passed
\* with no such message in the queue.
C30_MessageBeatsTimeout ==
    /\ [][(/\ PollStep
           /\ session.kernel_state.type = "MsgAwait"
           /\ session.kernel_state.max_time # None
           /\ get_incoming(session, session.kernel_state.id) # 0)
          => /\ to_kernel' # <<>>
             /\ to_kernel'[1] = "SubkernelMsgRecvReply"
             /\ \A i \in 1..Len(to_kernel') : to_kernel'[i] # "SubkernelError_Timeout"]_vars
    /\ [][(/\ PollStep
           /\ session.kernel_state.type = "MsgAwait"
           /\ timed_out' # timed_out)
          => /\ now > session.kernel_state.max_time[1]
             /\ get_incoming(session, session.kernel_state.id) = 0]_vars

\* the deadline of a wait for a message has passed with the message queued
MsgAwaitLatePoll ==
    /\ svc_pc = "kern"
    /\ session.kernel_state.type = "MsgAwait"
    /\ deadline_passed(now, session.kernel_state.max_time)
    /\ get_incoming(session, session.kernel_state.id) # 0

\* the session waits for the end of subkernel id, its deadline has not passed,
\* and no message stands before the notification
waits_for_finish(s, t, id) ==
    /\ s.kernel_state.type \in {"SubkernelAwaitFinish", "MsgAwait"}
    /\ s.kernel_state.id = id
    /\ ~deadline_passed(t, s.kernel_state.max_time)
    /\ s.kernel_state.type = "MsgAwait" => get_incoming(s, id) = 0

\* C31: a SubkernelFinished packet appends (id, exception source) to
\* subkernels_finished and changes nothing else of the session, whatever its
\* state; a poll that finds the session waiting for an id (SubkernelAwaitFinish,
\* or MsgAwait with no message of that id queued; deadline not passed) with a
\* notification of that id queued takes the first such notification: without
\* exception the kernel is sent SubkernelAwaitFinishReply, the notification is
\* removed and the session is Running; with exception a
\* SubkernelExceptionRequest is routed to the exception's source and the
\* session is in SubkernelRetrievingException for that source.  A poll of a
\* waiting session with no notification of the awaited id does neither.
C31_FinishQueuedThenMatched ==
    /\ [][ev'.op = "SubkernelFinished"
            => \E src \in {None, Some(RemoteDest)} :
                  session' = [session EXCEPT !.subkernels_finished =
                                                 Append(@, <<ev'.id, src>>)]]_vars
    /\ [][\A id \in RemoteIds :
            (PollStep /\ waits_for_finish(session, now, id))
            => LET sf == session.subkernels_finished
                   hits == {i \in 1..Len(sf) : sf[i][1] = id}
               IN  IF hits = {}
                   THEN /\ \A i \in 1..Len(to_kernel') :
                              to_kernel'[i] # "SubkernelAwaitFinishReply"
                        /\ session'.kernel_state = session.kernel_state
                        /\ session'.subkernels_finished = sf
                   ELSE LET h == CHOOSE i \in hits : \A j \in hits : i <= j
                        IN  IF sf[h][2] = None
                            THEN /\ to_kernel' = <<"SubkernelAwaitFinishReply">>
                                 /\ session'.kernel_state = Running
                                 /\ Len(session'.subkernels_finished) = Len(sf) - 1
                            ELSE /\ session'.kernel_state =
                                        KS("SubkernelRetrievingException", None, 0, 0,
                                           sf[h][2][1])
                                 /\ \E i \in 1..Len(routed') :
                                        /\ routed'[i].type = "SubkernelExceptionRequest"
                                        /\ routed'[i].destination = sf[h][2][1]
                                 /\ to_kernel' = <<>>]_vars

\* C31 witness: a queued notification with exception has been matched by the
\* session's wait, and the exception is requested from its source
C31_Witness ==
    /\ session.kernel_state.type = "SubkernelRetrievingException"
    /\ session.kernel_state.destination = RemoteDest
    /\ session.external_exception
    /\ \E i \in 1..Len(routed) : routed[i].type = "SubkernelExceptionRequest"

\* C32: a load that succeeds on a session in Absent (the kernel CPU holds the
\* binary and has not been started) leaves the session in Loaded with the id
\* of the request; and while the kernel CPU holds the loaded binary of the
\* session's id, a run of that id sets Running without restarting the kernel
\* CPU and loading again.
C32_LoadThenRun ==
    /\ [][(/\ ev'.op = "SubkernelLoadRunRequest"
           /\ session.kernel_state = Absent
           /\ kcpu' = "loaded"
           /\ routed'[1].succeeded)
          => /\ session'.kernel_state.type = "Loaded"
             /\ session'.id = ev'.id]_vars
    /\ [](kcpu = "loaded" =>
            \A source \in Sources, reply \in LoadReplies :
                LET r == run(session, kernels, source, session.id, reply)
                IN  r.ok /\ ~r.restarted /\ r.s.kernel_state = Running)

\* a binary has been loaded and not run
LoadedNotRun ==
    /\ ev.op = "SubkernelLoadRunRequest"
    /\ kcpu = "loaded"
    /\ routed[1].succeeded
    /\ session.id = ev.id

\* C33, as claimed: after the local handling of a packet that carries a
\* destination, of whatever type, self_destination is that destination.
C33_AsClaimed ==
    (dev.type \in DestinationAddressed /\ dev.local) => self_destination = dev.destination

\* C33, amended: so it is after the local handling of a
\* DestinationStatusRequest, a DmaAddTraceRequest or a SubkernelAddDataRequest;
\* the handling of any other packet, and of a packet that is forwarded,
\* leaves self_destination as it was.
C33_LearnsFromThree ==
    /\ [](/\ dev.local
          /\ dev.type \in {"DestinationStatusRequest", "DmaAddTraceRequest",
                           "SubkernelAddDataRequest"}
          => self_destination = dev.destination)
    /\ [][(\/ ~dev'.local
           \/ dev'.type \notin {"DestinationStatusRequest", "DmaAddTraceRequest",
                                "SubkernelAddDataRequest"})
          => self_destination' = self_destination]_vars

\* C33 witness: the satellite has taken a destination other than its first
\* from a locally handled SubkernelAddDataRequest
C33_Witness ==
    /\ dev.type = "SubkernelAddDataRequest"
    /\ dev.local
    /\ self_destination = dev.destination
    /\ self_destination # INITIAL_DESTINATION

\* the camera and the grabber have agreed on CoaXPress 2.0 or higher: the
\* result of negotiate_cxp_version while camera_setup runs, WITH_TAG after it
version_2_negotiated == IF setup # None THEN setup[1].with_tag ELSE WITH_TAG

\* C34: a control packet that has just been sent carries a tag if and only if
\* the version negotiated for the connection is 2.0 or higher.
C34_TagIffVersion2 ==
    xev.step = "request" => (xev.tag # None <=> version_2_negotiated)

\* C35: a control read or write that has sent its request returns, with
\* success or with an error, whatever the camera answers.
C35_TransactionReturns == (txn # None) ~> (txn = None)

\* C36: a step that ends a running session (the session stops running, or a
\* load replaces it by a new session) leaves a notice for the session's id and
\* the source of its run, which the next poll routes to that source as
\* SubkernelFinished.
C36_EndIsNotified ==
    [][(/\ running(session)
        /\ \/ ~running(session')
           \/ ev'.op = "SubkernelLoadRunRequest" /\ kernels[ev'.id] = "complete")
       => /\ last_finished' # None
          /\ last_finished'[1].id = session.id
          /\ last_finished'[1].source = session.source]_vars

\* the session holds a playback request until the upload is acknowledged
playback_pending(s) == s.kernel_state.type \in {"DmaPendingPlayback", "DmaPendingAwait"}

\* C37: a poll that takes the kernel's DmaStartRemoteRequest while
\* destinations have yet to acknowledge the upload starts no playback: it
\* leaves the request pending in the session; a DmaAddTraceReply that leaves
\* destinations to acknowledge leaves the pending request as it is; and the
\* reply that completes the upload hands the pending request over for
\* playback, once: the session is pending no more.
C37_PlaybackAfterUpload ==
    /\ [][(PollStep /\ ev'.msg = "DmaStartRemoteRequest" /\ uploads > 0)
            => /\ session'.kernel_state.type = "DmaPendingPlayback"
               /\ uploads' = uploads]_vars
    /\ [][(ev'.op = "DmaAddTraceReply" /\ playback_pending(session) /\ uploads' > 0)
            => session' = session]_vars
    /\ [][(ev'.op = "DmaAddTraceReply" /\ playback_pending(session)
                /\ uploads > 0 /\ uploads' = 0)
            => ~playback_pending(session')]_vars

\* process_aux_packet has handled a SubkernelLoadRunRequest with run = true
\* while dma_manager.running()
RunRequestedDuringDma ==
    \E source \in Sources, id \in KernelIds, reply1 \in LoadReplies, reply2 \in LoadReplies :
        SubkernelLoadRunRequest(source, id, TRUE, TRUE, reply1, reply2)

\* C38: such a request starts no kernel, is answered with
\* SubkernelLoadRunReply { succeeded: false }, and leaves the session as it was.
C38_RunRefusedDuringDma ==
    [][RunRequestedDuringDma
         => /\ to_kernel' = <<>>
            /\ Len(routed') = 1
            /\ routed'[1].type = "SubkernelLoadRunReply"
            /\ ~routed'[1].succeeded
            /\ session' = session]_vars

----------------------------------------------------------------------------
\* Properties of the CXP register requests on a satellite (specification
\* SpecCxpSat).

\* the satellite handles a request with the camera connected, nothing stored
\* and no task running
HandledWhenFree ==
    /\ kreq # None
    /\ qev'.step = "transact"
    /\ qev'.reply # None
    /\ connected
    /\ CXP_PACKET = None
    /\ cxp_task = None

\* C39: after a CXP read or write request has failed and its error has been
\* delivered to the master, a later CXP request is still executed: handled
\* with the camera connected, no result stored and no task running, it starts
\* its task, so that it can be answered with something other than CXPWaitReply.
C39_LaterRequestExecuted ==
    [][(error_delivered /\ HandledWhenFree) => cxp_task' = kreq]_vars

\* C40: the CXPReadReply, CXPWrite32Reply or CXPError the satellite sends in
\* answer to a CXP request is the result of that request: same kind, address
\* and length (or value).
C40_ReplyIsOfTheRequest ==
    (qev.step = "transact" /\ qev.reply # None
        /\ qev.reply[1].type \in {"CXPReadReply", "CXPWrite32Reply", "CXPError"})
        => qev.reply[1].of = qev.req

====
